---- MODULE Spec2Model ----
(***************************************************************************)
(* Model of the pulse IR program graph (qiskit/pulse/ir/ir.py, SequenceIR) *)
(* and of the ConsolidateSequences compiler pass                           *)
(* (qiskit/pulse/compiler/passes/consolidate_sequences.py).                *)
(*                                                                         *)
(* A SequenceIR is a record                                                *)
(*   al   : the alignment kind                                             *)
(*   nd   : the node payloads of the PyDAG, a function node index -> data  *)
(*   ed   : the edges of the PyDAG, a set of <<source, target>>            *)
(*   free : the vacant node slots of the PyDAG, most recently freed first  *)
(*   nb   : the number of node slots ever allocated by the PyDAG           *)
(*   tt   : the time table; it is a defaultdict whose missing keys read    *)
(*          as None, so it is kept as the function of its set entries      *)
(* A payload is a record tagged by k: the Input sentinel, the Output       *)
(* sentinel, a leaf instruction, or a nested SequenceIR.                   *)
(***************************************************************************)
EXTENDS Integers, Sequences, FiniteSets, TLC

\* ------------------------------------------------------------------ bounds
MaxNodes == 3       \* nodes of a generated program, nested graphs included
MaxDepth == 2       \* nesting depth of a generated program
MaxInner == 2       \* leaves of a nested graph in the sibling and chain programs
MaxTop == 3         \* elements of a generated chain program
MaxTimedNodes == 2  \* nodes of a generated program that gets scheduled
MaxTime == 0        \* largest offset written into a time table
MaxTimed == 1       \* time-table entries written before the pass runs
MaxSteps == 2       \* time-table writes and operations on one program
MaxOffset == 1      \* largest offset of a full schedule
MaxIndex == 1       \* largest index of a qubit, coupler or frame

\* ------------------------------------------------------------- basic values
None == -1

AlignLeft == "AlignLeft"
AlignRight == "AlignRight"
AlignSequential == "AlignSequential"
AlignEquispaced == "AlignEquispaced"
AlignFunc == "AlignFunc"
Alignments == {AlignLeft, AlignRight, AlignSequential, AlignEquispaced, AlignFunc}

\* one alignment of each kind the pass tells apart: in the tuple of line 42
\* only, in it and sequential (line 85), in neither
NestingAlignments == {AlignLeft, AlignSequential, AlignFunc}

\* mutants of the tuple of line 42: one without AlignRight, one with AlignEquispaced
single_instruction_alignments_no_right == {AlignLeft, AlignSequential}
single_instruction_alignments_equispaced ==
  {AlignLeft, AlignRight, AlignSequential, AlignEquispaced}

single_instruction_unnecessary_alignments == {AlignLeft, AlignRight, AlignSequential}

InNode == [k |-> "in"]
OutNode == [k |-> "out"]

\* what copy.deepcopy makes of the two sentinels: plain objects are rebuilt,
\* so the copies are new objects, equal to nothing but themselves
InNodeCopy == [k |-> "in_copy"]
OutNodeCopy == [k |-> "out_copy"]
Inst(name) == [k |-> "inst", v |-> name]
Nested(g) == [k |-> "seq", g |-> g]

IsSequenceIR(w) == w.k = "seq"
IsSentinel(w) == w.k \in {"in", "out", "in_copy", "out_copy"}

RECURSIVE SortSet(_)
SortSet(S) ==
  IF S = {} THEN <<>>
  ELSE LET m == CHOOSE x \in S : \A y \in S : x <= y
       IN <<m>> \o SortSet(S \ {m})

\* ------------------------------------------------------------ PyDAG queries
node_indices(g) == SortSet(DOMAIN g.nd)
nodes(g) == [i \in 1..Len(node_indices(g)) |-> g.nd[node_indices(g)[i]]]
predecessor_indices(g, n) == {e[1] : e \in {x \in g.ed : x[2] = n}}
successor_indices(g, n) == {e[2] : e \in {x \in g.ed : x[1] = n}}

\* SequenceIR.elements: the payloads in index order without the first two
elements(g) == SubSeq(nodes(g), 3, Len(nodes(g)))

\* reading the defaultdict time table
TimeOf(g, i) == IF i \in DOMAIN g.tt THEN g.tt[i] ELSE None
SetTimeEntry(tt, i, t) == [j \in (DOMAIN tt) \cup {i} |-> IF j = i THEN t ELSE tt[j]]
DelTimeEntry(tt, i) == [j \in (DOMAIN tt) \ {i} |-> tt[j]]

\* ---------------------------------------------------------- PyDAG mutation
\* the index add_node hands out: the most recently vacated slot, else a new one
NextIndex(g) == IF g.free # <<>> THEN Head(g.free) ELSE g.nb

add_node(g, w) ==
  LET i == NextIndex(g)
  IN [g EXCEPT !.nd = [j \in (DOMAIN g.nd) \cup {i} |-> IF j = i THEN w ELSE g.nd[j]],
               !.free = IF g.free # <<>> THEN Tail(g.free) ELSE g.free,
               !.nb = IF g.free # <<>> THEN g.nb ELSE g.nb + 1]

remove_node(g, n) ==
  [g EXCEPT !.nd = [j \in (DOMAIN g.nd) \ {n} |-> g.nd[j]],
            !.ed = {e \in g.ed : e[1] # n /\ e[2] # n},
            !.free = <<n>> \o g.free]

\* mutant of remove_node_retain_edges: the bridging edges go both ways
remove_node_retain_edges_both_ways(g, n) ==
  LET bridged == predecessor_indices(g, n) \X successor_indices(g, n)
  IN remove_node([g EXCEPT !.ed = g.ed \cup bridged \cup {<<e[2], e[1]>> : e \in bridged}], n)

remove_node_retain_edges(g, n) ==
  LET bridged == predecessor_indices(g, n) \X successor_indices(g, n)
  IN remove_node([g EXCEPT !.ed = g.ed \cup bridged], n)

set_node_data(g, n, w) == [g EXCEPT !.nd[n] = w]

\* mutant of edge_map: the incoming edges go to the Output copy and the
\* outgoing edges leave the Input copy
edge_map_swapped(x, y, node) == IF y = node THEN 1 ELSE IF x = node THEN 0 ELSE None

\* the edge map both flatten and the pass hand to the substitution
edge_map(x, y, node) == IF y = node THEN 0 ELSE IF x = node THEN 1 ELSE None

\* copy the nodes of other into g one by one, in index order
RECURSIVE CopyNodes(_, _, _, _)
CopyNodes(g, other, ids, map) ==
  IF ids = <<>> THEN [g |-> g, map |-> map]
  ELSE LET i == NextIndex(g)
           old == Head(ids)
       IN CopyNodes(add_node(g, other.nd[old]), other, Tail(ids),
                    [j \in (DOMAIN map) \cup {old} |-> IF j = old THEN i ELSE map[j]])

EmptyMap == [j \in {} |-> 0]

\* the rest of the substitution once the nodes are copied (c holds the graph
\* with the copies and the node map): the edges of other between the copies,
\* the edges of node redirected by edge_map, and node removed
Splice(g, node, other, c) ==
  [g |-> remove_node(
           [c.g EXCEPT !.ed =
              c.g.ed
              \cup {<<c.map[e[1]], c.map[e[2]]>> : e \in other.ed}
              \cup {<<e[1], c.map[edge_map(e[1], e[2], node)]>> :
                      e \in {x \in g.ed : x[2] = node /\ edge_map(x[1], x[2], node) # None}}
              \cup {<<c.map[edge_map(e[1], e[2], node)], e[2]>> :
                      e \in {x \in g.ed : x[1] = node /\ edge_map(x[1], x[2], node) # None}}],
           node),
   map |-> c.map]

\* PyDAG.substitute_node_with_subgraph(node, other, edge_map): returns the
\* graph and the node map from the indices of other to the new indices
substitute_node_with_subgraph(g, node, other) ==
  Splice(g, node, other, CopyNodes(g, other, node_indices(other), EmptyMap))

\* ------------------------------------------------------------ construction
\* SequenceIR.__init__
NewSequenceIR(al) ==
  [al |-> al, nd |-> [i \in {0, 1} |-> IF i = 0 THEN InNode ELSE OutNode],
   ed |-> {}, free |-> <<>>, nb |-> 2, tt |-> EmptyMap]

\* SequenceIR.append
append(g, element) == add_node(g, element)

RECURSIVE AppendAll(_, _)
AppendAll(g, es) == IF es = <<>> THEN g ELSE AppendAll(append(g, Head(es)), Tail(es))

\* --------------------------------------------------------------- sequencing
\* the precedence edges the sequencing pass adds: a chain through the
\* elements in index order, or every element between Input and Output
ChainEdges(ids) ==
  IF ids = <<>> THEN {<<0, 1>>}
  ELSE {<<0, ids[1]>>, <<ids[Len(ids)], 1>>}
       \cup {<<ids[i], ids[i + 1]>> : i \in 1..(Len(ids) - 1)}

FanEdges(ids) ==
  {<<0, ids[i]>> : i \in 1..Len(ids)} \cup {<<ids[i], 1>> : i \in 1..Len(ids)}

Interior(g) == SubSeq(node_indices(g), 3, Len(node_indices(g)))

SetSequence(g, shape) ==
  [g EXCEPT !.ed = IF shape = "chain" THEN ChainEdges(Interior(g))
                   ELSE FanEdges(Interior(g))]

\* the shapes sequencing can give a graph of n elements with alignment al
Shapes(al, n) ==
  IF al \in {AlignLeft, AlignRight} /\ n # 1 THEN {"chain", "fan"} ELSE {"chain"}

\* the same, an empty graph always bridging Input to Output
BridgedShapes(al, n) == IF n = 0 THEN {"chain"} ELSE Shapes(al, n)

Build(al, es, shape) == SetSequence(AppendAll(NewSequenceIR(al), es), shape)

\* ------------------------------------------------------ generated programs
\* Every leaf instruction is named by its position in the program.
RECURSIVE Forests(_, _, _, _)
RECURSIVE Graphs(_, _, _)
Children(m, d, p) ==
  (IF m = 1 THEN {Inst(p)} ELSE {})
  \cup (IF d >= 1 THEN {Nested(g) : g \in Graphs(m - 1, d - 1, p)} ELSE {})

\* the element lists of exactly n nodes in all, the first at index i
Forests(n, d, pfx, i) ==
  IF n = 0 THEN {<<>>}
  ELSE UNION {LET cs == Children(m, d, pfx \o <<i>>)
                  rs == IF cs = {} THEN {} ELSE Forests(n - m, d, pfx, i + 1)
              IN {<<c>> \o r : c \in cs, r \in rs} : m \in 1..n}

\* the sequenced graphs of exactly n nodes in all and nesting depth up to d
Graphs(n, d, pfx) ==
  LET fs == Forests(n, d, pfx, 2)
  IN UNION {{Build(al, es, sh) : sh \in BridgedShapes(al, Len(es))} :
              al \in NestingAlignments, es \in fs}

Programs == UNION {Graphs(n, MaxDepth, <<>>) : n \in 0..MaxNodes}

\* the programs the scheduler writes offsets into
SmallPrograms == UNION {Graphs(n, MaxDepth, <<>>) : n \in 0..MaxTimedNodes}

\* g and its nested graphs all have the alignment al
RECURSIVE OnlyAligned(_, _)
OnlyAligned(g, al) ==
  /\ g.al = al
  /\ \A i \in DOMAIN g.nd : IsSequenceIR(g.nd[i]) => OnlyAligned(g.nd[i].g, al)

\* the programs that are flattened and queried: the alignment plays no part
\* in flatten, in the durations and in the listings, one alignment stands
\* for all of them
FlatPrograms == {g \in Programs : OnlyAligned(g, AlignLeft)}

\* the programs built by append alone, no edge added
UnsequencedPrograms ==
  UNION {{AppendAll(NewSequenceIR(AlignLeft), es) : es \in Forests(n, MaxDepth, <<>>, 2)} :
           n \in 0..MaxTimedNodes}

\* a nested graph of any alignment between an optional leaf before it and an
\* optional leaf after it, in a parent of any alignment
Leaves(p, k) == [j \in 1..k |-> Inst(p \o <<j + 1>>)]

SiblingForestsAfter(lead) ==
  UNION {{lead \o <<Nested(Build(b, Leaves(<<Len(lead) + 2>>, k), sh))>> \o trail :
            trail \in {<<>>, <<Inst(<<Len(lead) + 3>>)>>}, sh \in Shapes(b, k)} :
           b \in Alignments, k \in 0..MaxInner}

SiblingForests == SiblingForestsAfter(<<>>) \cup SiblingForestsAfter(<<Inst(<<2>>)>>)

SiblingPrograms ==
  UNION {{Build(a, es, sh) : sh \in Shapes(a, Len(es))} :
           a \in Alignments, es \in SiblingForests}

\* sequential programs whose elements are leaves or nested sequential chains
ChainElement(p) == {Inst(p)} \cup {Nested(Build(AlignSequential, Leaves(p, k), "chain")) : k \in 2..MaxInner}

RECURSIVE ChainForests(_, _)
ChainForests(n, i) ==
  {<<>>} \cup
  (IF n = 0 THEN {}
   ELSE {<<c>> \o r : c \in ChainElement(<<i>>), r \in ChainForests(n - 1, i + 1)})

ChainPrograms == {Build(AlignSequential, es, "chain") : es \in ChainForests(MaxTop, 2)}

\* ----------------------------------------------------- ConsolidateSequences
\* SequenceIR.time_table, the accessor the pass reads the time table through
time_table(g, i) == TimeOf(g, i)

\* mutants of the precondition: an offset of 0 counts as unset; no check at all
AlreadyScheduledTruthy(g) ==
  \E x \in DOMAIN g.nd : x \notin {0, 1} /\ time_table(g, x) \notin {None, 0}

AlreadyScheduledNever(g) == FALSE

\* the precondition of _consolidate_recursion: no element of prog has a time
AlreadyScheduled(g) ==
  \E x \in DOMAIN g.nd : x \notin {0, 1} /\ time_table(g, x) # None

\* the time-table update of the inlining branch: every copied element gets
\* the offset of the replaced node added to its own offset in sub_prog
RECURSIVE ShiftTimes(_, _, _, _, _)
ShiftTimes(tt, olds, map, initial_time, sub) ==
  IF olds = <<>> THEN [tt |-> tt, err |-> "none"]
  ELSE LET old == Head(olds)
       IN IF old \in {0, 1} THEN ShiftTimes(tt, Tail(olds), map, initial_time, sub)
          ELSE IF TimeOf(sub, old) = None THEN [tt |-> tt, err |-> "TypeError"]
          ELSE ShiftTimes(SetTimeEntry(tt, map[old], initial_time + TimeOf(sub, old)),
                          Tail(olds), map, initial_time, sub)

\* _consolidate_recursion returns the mutated graph, the error raised ("none"
\* if it returned) and whether the time-table update of the inlining branch ran
RECURSIVE consolidate_recursion(_)
RECURSIVE ConsolidateLoop(_, _)

\* mutant of the removal of the sentinel copies: they are left in the graph
KeepSentinelCopies(g, map) == g

\* the copies of the nested graph's two sentinels are removed, edges retained
RemoveSentinelCopies(g, map) ==
  remove_node_retain_edges(remove_node_retain_edges(g, map[0]), map[1])

\* lines 99-108 once the offsets are shifted (s is what the substitution
\* returned, sh what the shifting did): the entry of the replaced node is
\* deleted and the sentinel copies are removed, unless the shifting raised
InlineShifted(s, ind, sh) ==
  IF sh.err # "none" THEN [g |-> [s.g EXCEPT !.tt = sh.tt], err |-> sh.err, adj |-> TRUE]
  ELSE [g |-> RemoveSentinelCopies([s.g EXCEPT !.tt = DelTimeEntry(sh.tt, ind)], s.map),
        err |-> "none", adj |-> TRUE]

\* lines 99-108 once the nested graph is substituted (s is what the
\* substitution returned): the offsets are shifted only if the replaced node
\* had one
InlineSubstituted(prog, ind, sub_prog, s, initial_time) ==
  IF initial_time = None
    THEN [g |-> RemoveSentinelCopies(s.g, s.map), err |-> "none", adj |-> FALSE]
  ELSE InlineShifted(s, ind,
                     ShiftTimes(prog.tt, node_indices(sub_prog), s.map, initial_time, sub_prog))

\* the plain inlining branch, lines 96-108
InlineSequential(prog, ind, sub_prog) ==
  InlineSubstituted(prog, ind, sub_prog,
                    substitute_node_with_subgraph(prog, ind, sub_prog),
                    time_table(prog, ind))

\* mutant of line 75: only an empty graph of a degenerate alignment counts
IsEmptySubDegenerate(sub_prog) ==
  Len(elements(sub_prog)) = 0 /\ sub_prog.al \in {AlignLeft, AlignRight, AlignSequential}

\* line 75: the nested graph has no elements
IsEmptySub(sub_prog) == Len(elements(sub_prog)) = 0

\* mutant of line 76: the empty nested graph is removed with its edges
RemoveEmptyDropEdges(prog, ind) == remove_node(prog, ind)

\* line 76: the empty nested graph is removed, its edges retained
RemoveEmpty(prog, ind) == remove_node_retain_edges(prog, ind)

\* mutant of lines 80-87: the inlining branch is tried first
RuleInlineFirst(prog, sub_prog) ==
  IF sub_prog.al = AlignSequential /\ prog.al = AlignSequential
    THEN "inline"
  ELSE IF sub_prog.al \in {AlignLeft, AlignRight, AlignSequential} /\ Len(elements(sub_prog)) = 1
    THEN "single"
  ELSE "keep"

\* lines 80-87: what is done with a nested graph once it is consolidated
Rule(prog, sub_prog) ==
  IF sub_prog.al \in single_instruction_unnecessary_alignments /\ Len(elements(sub_prog)) = 1
    THEN "single"
  ELSE IF sub_prog.al = AlignSequential /\ prog.al = AlignSequential
    THEN "inline"
  ELSE "keep"

\* line 84: the node's payload becomes the single element
ReplaceBySingle(prog, ind, sub_prog) == set_node_data(prog, ind, elements(sub_prog)[1])

\* a result with the time-table update of an earlier step counted in
WithAdj(r, a) == [r EXCEPT !.adj = @ \/ a]

\* lines 80-108 for the nested graph sub_prog of node ind, consolidated itself
Simplify(prog, ind, sub_prog) ==
  IF Rule(prog, sub_prog) = "single"
    THEN [g |-> ReplaceBySingle(prog, ind, sub_prog), err |-> "none", adj |-> FALSE]
  ELSE IF Rule(prog, sub_prog) = "inline"
    THEN InlineSequential(prog, ind, sub_prog)
  ELSE [g |-> prog, err |-> "none", adj |-> FALSE]

\* lines 79-108 once the recursion into the nested graph of node ind is over
\* (r is what it returned): the nested graph was consolidated where it is, so
\* the node holds it as the recursion left it, and the error is passed on
AfterRecursion(prog, ind, r) ==
  IF r.err # "none"
    THEN [g |-> set_node_data(prog, ind, Nested(r.g)), err |-> r.err, adj |-> r.adj]
  ELSE WithAdj(Simplify(set_node_data(prog, ind, Nested(r.g)), ind, r.g), r.adj)

\* one iteration of the loop of line 71 for a node that is no sentinel
ConsolidateNode(prog, ind) ==
  IF ~IsSequenceIR(prog.nd[ind]) THEN [g |-> prog, err |-> "none", adj |-> FALSE]
  ELSE IF IsEmptySub(prog.nd[ind].g)
    THEN [g |-> RemoveEmpty(prog, ind), err |-> "none", adj |-> FALSE]
  ELSE AfterRecursion(prog, ind, consolidate_recursion(prog.nd[ind].g))

\* the loop over the node indices taken when the loop starts
ConsolidateLoop(st, inds) ==
  IF inds = <<>> \/ st.err # "none" THEN st
  ELSE IF Head(inds) \in {0, 1} THEN ConsolidateLoop(st, Tail(inds))
  ELSE ConsolidateLoop(WithAdj(ConsolidateNode(st.g, Head(inds)), st.adj), Tail(inds))

\* mutant of _consolidate_recursion: the precondition is checked after the loop
consolidate_recursion_check_last(prog) ==
  LET r == ConsolidateLoop([g |-> prog, err |-> "none", adj |-> FALSE], node_indices(prog))
  IN IF r.err # "none" THEN r
     ELSE IF AlreadyScheduled(prog)
       THEN [g |-> r.g, err |-> "PulseCompilerError", adj |-> r.adj]
     ELSE r

consolidate_recursion(prog) ==
  IF AlreadyScheduled(prog) THEN [g |-> prog, err |-> "PulseCompilerError", adj |-> FALSE]
  ELSE ConsolidateLoop([g |-> prog, err |-> "none", adj |-> FALSE], node_indices(prog))

\* ConsolidateSequences.run
run(passmanager_ir) == consolidate_recursion(passmanager_ir)

\* ------------------------------------------------------------------ flatten
\* copy.deepcopy of a SequenceIR: the PyDAG is rebuilt from its pickled state,
\* which keeps the node indices, leaves the holes below the last node vacant
\* (the highest is handed out first) and drops the vacant slots above it
Max(S) == CHOOSE x \in S : \A y \in S : y <= x

RECURSIVE Reverse(_)
Reverse(q) == IF q = <<>> THEN <<>> ELSE Reverse(Tail(q)) \o <<Head(q)>>

\* the deep copy of a payload that is no SequenceIR: an instruction is copied
\* to an equal instruction, a sentinel to a new object
CopyPayload(w) ==
  IF w.k \in {"in", "in_copy"} THEN InNodeCopy
  ELSE IF w.k \in {"out", "out_copy"} THEN OutNodeCopy
  ELSE w

RECURSIVE deepcopy(_)
deepcopy(g) ==
  LET top == Max(DOMAIN g.nd)
  IN [g EXCEPT !.nd = [i \in DOMAIN g.nd |->
                         IF IsSequenceIR(g.nd[i]) THEN Nested(deepcopy(g.nd[i].g))
                         ELSE CopyPayload(g.nd[i])],
               !.free = Reverse(SortSet((0..top) \ DOMAIN g.nd)),
               !.nb = top + 1]

\* flatten returns the mutated block and the error raised ("none" if it returned)
RECURSIVE FlattenInPlace(_)
RECURSIVE FlattenLoop(_, _)

\* lines 227-236 once the offsets are shifted (s is what the substitution
\* returned, sh what the shifting did)
FlattenShifted(s, ind, sh) ==
  IF sh.err # "none" THEN [g |-> [s.g EXCEPT !.tt = sh.tt], err |-> sh.err]
  ELSE [g |-> RemoveSentinelCopies([s.g EXCEPT !.tt = DelTimeEntry(sh.tt, ind)], s.map),
        err |-> "none"]

\* lines 227-236 once the nested block is substituted (s is what the
\* substitution returned): the entry of the replaced node is deleted whether
\* or not it held an offset
FlattenSubstituted(block, ind, sub_block, s, initial_time) ==
  IF initial_time = None
    THEN [g |-> RemoveSentinelCopies([s.g EXCEPT !.tt = DelTimeEntry(block.tt, ind)], s.map),
          err |-> "none"]
  ELSE FlattenShifted(s, ind,
                      ShiftTimes(block.tt, node_indices(sub_block), s.map, initial_time,
                                 sub_block))

\* mutant of line 227: the offset of the replaced node is taken as 0
FlattenIntoNoOffset(block, ind, sub_block) ==
  FlattenSubstituted(block, ind, sub_block,
                     substitute_node_with_subgraph(block, ind, sub_block),
                     IF TimeOf(block, ind) = None THEN None ELSE 0)

\* lines 223-236 for the nested block sub_block of node ind, flattened itself
FlattenInto(block, ind, sub_block) ==
  FlattenSubstituted(block, ind, sub_block,
                     substitute_node_with_subgraph(block, ind, sub_block),
                     TimeOf(block, ind))

\* lines 222-236 once the nested block of node ind is flattened (r is what
\* flattening it returned)
AfterFlatten(block, ind, r) ==
  IF r.err # "none" THEN [g |-> set_node_data(block, ind, Nested(r.g)), err |-> r.err]
  ELSE FlattenInto(set_node_data(block, ind, Nested(r.g)), ind, r.g)

\* lines 222-236 for a node that holds a nested SequenceIR
FlattenNode(block, ind) == AfterFlatten(block, ind, FlattenInPlace(block.nd[ind].g))

FlattenLoop(st, inds) ==
  IF inds = <<>> \/ st.err # "none" THEN st
  ELSE IF ~IsSequenceIR(st.g.nd[Head(inds)]) THEN FlattenLoop(st, Tail(inds))
  ELSE FlattenLoop(FlattenNode(st.g, Head(inds)), Tail(inds))

FlattenInPlace(block) == FlattenLoop([g |-> block, err |-> "none"], node_indices(block))

\* mutant of the copy of line 207: a copy one level deep, whose nested graphs
\* are the receiver's own
FlattenBlockShallow(self) ==
  [g |-> self, shared |-> {i \in DOMAIN self.nd : IsSequenceIR(self.nd[i])}]

\* line 207: the block flatten works on when it is not in place, with the
\* nodes whose nested graph it shares with the receiver: none, the copy is deep
FlattenBlock(self) == [g |-> deepcopy(self), shared |-> {}]

\* the receiver once the block c was flattened: a nested graph it shares with
\* the block was flattened in place
ReceiverAfter(self, c) ==
  [self EXCEPT !.nd = [i \in DOMAIN self.nd |->
                         IF i \in c.shared THEN Nested(FlattenInPlace(self.nd[i].g).g)
                         ELSE self.nd[i]]]

\* mutant of flatten: the copy keeps the sentinels the deep copy made
flatten_without_reset(self, inplace) ==
  IF inplace THEN FlattenInPlace(self) ELSE FlattenInPlace(FlattenBlock(self).g)

\* SequenceIR.flatten(inplace): what it returns
flatten(self, inplace) ==
  IF inplace THEN FlattenInPlace(self)
  ELSE FlattenInPlace(set_node_data(set_node_data(FlattenBlock(self).g, 0, InNode), 1, OutNode))

\* SequenceIR.flatten(inplace): what it leaves of the receiver
flatten_receiver(self, inplace) ==
  IF inplace THEN FlattenInPlace(self).g ELSE ReceiverAfter(self, FlattenBlock(self))

\* ------------------------------------------------------------------ equality
\* SequenceIR.__eq__: equal alignments and isomorphic DAGs under payload equality
RECURSIVE Eq(_, _)
RECURSIVE Match(_, _, _, _)

PayloadEq(x, y) ==
  IF x.k # y.k THEN FALSE
  ELSE IF x.k = "seq" THEN Eq(x.g, y.g)
  ELSE x = y

\* extend the partial node matching m by the nodes of todo
Match(g, h, todo, m) ==
  IF todo = <<>>
    THEN \A a \in DOMAIN g.nd, b \in DOMAIN g.nd :
           (<<a, b>> \in g.ed) <=> (<<m[a], m[b]>> \in h.ed)
  ELSE LET a == Head(todo)
           used == {m[x] : x \in DOMAIN m}
       IN \E b \in (DOMAIN h.nd) \ used :
            /\ PayloadEq(g.nd[a], h.nd[b])
            /\ Match(g, h, Tail(todo),
                     [x \in (DOMAIN m) \cup {a} |-> IF x = a THEN b ELSE m[x]])

is_isomorphic_node_match(g, h) ==
  /\ Cardinality(DOMAIN g.nd) = Cardinality(DOMAIN h.nd)
  /\ Cardinality(g.ed) = Cardinality(h.ed)
  /\ Match(g, h, node_indices(g), EmptyMap)

Eq(self, other) ==
  IF other.al # self.al THEN FALSE ELSE is_isomorphic_node_match(self, other)

\* the comparison as it runs: it returns True or False or raises
\* AttributeError. The matcher searches for a node mapping by backtracking
\* and calls the node matcher x == y on the candidate pairs it tries; the
\* order in which it takes nodes and candidates is not kept by the model, so
\* every order stands for it.
RECURSIVE eq_outcomes(_, _)
RECURSIVE SearchOutcomes(_, _, _)

\* x == y for two payloads: a SequenceIR on the left reads y.alignment (line
\* 241), which only a SequenceIR has; a sentinel on the left is a plain
\* object, whose comparison falls back on that of the SequenceIR on the
\* right; an instruction on the left is equal to an equal instruction only
CompareOutcomes(x, y) ==
  IF IsSequenceIR(x)
    THEN IF IsSequenceIR(y) THEN eq_outcomes(x.g, y.g) ELSE {"AttributeError"}
  ELSE IF IsSentinel(x)
    THEN IF IsSequenceIR(y) THEN {"AttributeError"}
         ELSE IF x = y THEN {"True"} ELSE {"False"}
  ELSE IF x = y THEN {"True"} ELSE {"False"}

\* the pair (a, b) may extend the mapping m: the degrees agree and so do the
\* edges to and from the nodes mapped already
Feasible(g, h, m, a, b) ==
  /\ Cardinality(predecessor_indices(g, a)) = Cardinality(predecessor_indices(h, b))
  /\ Cardinality(successor_indices(g, a)) = Cardinality(successor_indices(h, b))
  /\ \A x \in DOMAIN m : /\ ((<<a, x>> \in g.ed) <=> (<<b, m[x]>> \in h.ed))
                          /\ ((<<x, a>> \in g.ed) <=> (<<m[x], b>> \in h.ed))

\* the pair (a, b) is tried: the payloads are compared and, if they are
\* equal, the search goes on with the pair added
PairOutcomes(g, h, m, a, b) ==
  UNION {IF c = "True"
           THEN SearchOutcomes(g, h, [x \in (DOMAIN m) \cup {a} |-> IF x = a THEN b ELSE m[x]])
         ELSE {c} : c \in CompareOutcomes(g.nd[a], h.nd[b])}

\* the candidates of one node are tried one after the other (Rs holds what
\* each of them may give): the first that succeeds or raises ends the search
FromCandidates(Rs) ==
  {c \in {"True", "False", "AttributeError"} :
     IF c = "False" THEN \A R \in Rs : "False" \in R ELSE \E R \in Rs : c \in R}

NodeOutcomes(g, h, m, a) ==
  FromCandidates({PairOutcomes(g, h, m, a, b) :
                    b \in {x \in (DOMAIN h.nd) \ {m[y] : y \in DOMAIN m} :
                             Feasible(g, h, m, a, x)}})

SearchOutcomes(g, h, m) ==
  IF DOMAIN m = DOMAIN g.nd THEN {"True"}
  ELSE UNION {NodeOutcomes(g, h, m, a) : a \in (DOMAIN g.nd) \ DOMAIN m}

\* SequenceIR.__eq__ as a call
eq_outcomes(self, other) ==
  IF other.al # self.al THEN {"False"}
  ELSE IF \/ Cardinality(DOMAIN self.nd) # Cardinality(DOMAIN other.nd)
          \/ Cardinality(self.ed) # Cardinality(other.ed) THEN {"False"}
  ELSE SearchOutcomes(self, other, EmptyMap)

\* ------------------------------------------------------------------ listings
\* mutant of the sort: an entry goes before the entries of its own time
RECURSIVE InsertBeforeEqual(_, _)
InsertBeforeEqual(l, x) ==
  IF l = <<>> THEN <<x>>
  ELSE IF Head(l)[1] < x[1] THEN <<Head(l)>> \o InsertBeforeEqual(Tail(l), x)
  ELSE <<x>> \o l

\* list.sort(key=lambda x: x[0]): stable, entries of equal time keep their order
RECURSIVE InsertByTime(_, _)
InsertByTime(l, x) ==
  IF l = <<>> THEN <<x>>
  ELSE IF Head(l)[1] <= x[1] THEN <<Head(l)>> \o InsertByTime(Tail(l), x)
  ELSE <<x>> \o l

RECURSIVE SortByTime(_)
SortByTime(l) ==
  IF l = <<>> THEN <<>>
  ELSE InsertByTime(SortByTime(SubSeq(l, 1, Len(l) - 1)), l[Len(l)])

\* lines 117-120: the listing is sorted when every time of it is set
SortIfTimed(l) ==
  IF \A j \in 1..Len(l) : l[j][1] # None THEN SortByTime(l) ELSE l

\* lines 111-116: the (time, payload) pairs of the elements in index order
RECURSIVE ListedElements(_, _)
ListedElements(g, inds) ==
  IF inds = <<>> THEN <<>>
  ELSE IF Head(inds) \in {0, 1} THEN ListedElements(g, Tail(inds))
  ELSE <<(<<TimeOf(g, Head(inds)), g.nd[Head(inds)]>>)>> \o ListedElements(g, Tail(inds))

\* _recursive_scheduled_elements returns the listing and the error raised
\* ("none" if it returned)
RECURSIVE recursive_scheduled_elements(_, _)
RECURSIVE RecursiveListing(_, _, _, _)

\* line 150: the listing of a nested graph is appended, unless it raised
Extended(st, r) == [l |-> st.l \o r.l, err |-> r.err]

\* lines 142-152 for the nodes inds of g, st the listing so far
RecursiveListing(g, time_offset, inds, st) ==
  IF inds = <<>> \/ st.err # "none" THEN st
  ELSE IF Head(inds) \in {0, 1} THEN RecursiveListing(g, time_offset, Tail(inds), st)
  ELSE IF TimeOf(g, Head(inds)) = None THEN [l |-> st.l, err |-> "PulseError"]
  ELSE IF IsSequenceIR(g.nd[Head(inds)])
    THEN RecursiveListing(g, time_offset, Tail(inds),
           Extended(st, recursive_scheduled_elements(g.nd[Head(inds)].g,
                                                     TimeOf(g, Head(inds)) + time_offset)))
  ELSE RecursiveListing(g, time_offset, Tail(inds),
         [l |-> Append(st.l, <<TimeOf(g, Head(inds)) + time_offset, g.nd[Head(inds)]>>),
          err |-> "none"])

recursive_scheduled_elements(g, time_offset) ==
  RecursiveListing(g, time_offset, node_indices(g), [l |-> <<>>, err |-> "none"])

\* lines 117-120 for what the recursive listing returned
SortedListing(r) == IF r.err # "none" THEN r ELSE [l |-> SortIfTimed(r.l), err |-> "none"]

\* SequenceIR.scheduled_elements(recursive)
scheduled_elements(g, recursive) ==
  IF recursive THEN SortedListing(recursive_scheduled_elements(g, 0))
  ELSE [l |-> SortIfTimed(ListedElements(g, node_indices(g))), err |-> "none"]

\* ----------------------------------------------------------------- duration
\* Instruction.duration of a generated instruction: a positive integer, told
\* by the position the instruction is named by
inst_duration(w) == w.v[Len(w.v)] - 1

\* line 166 for one node: the offset is read, then the duration attribute,
\* then the two are added (d is what reading the duration gave)
Term(time, d) ==
  IF d.err # "none" THEN d
  ELSE IF time = None \/ d.v = None THEN [v |-> None, err |-> "TypeError"]
  ELSE [v |-> time + d.v, err |-> "none"]

\* SequenceIR.duration: the values it may return and the errors it may raise.
\* The generator of line 165 stops at the first node whose term raises, and
\* the order of predecessor_indices is the order of the edge list, which the
\* edge set does not keep: every failing term may be the first.
RECURSIVE DurationOutcomes(_)

\* a sentinel is a plain object without a duration attribute
TermOutcomes(g, ind) ==
  IF IsSentinel(g.nd[ind]) THEN {[v |-> None, err |-> "AttributeError"]}
  ELSE IF IsSequenceIR(g.nd[ind])
    THEN {Term(TimeOf(g, ind), d) : d \in DurationOutcomes(g.nd[ind].g)}
  ELSE {Term(TimeOf(g, ind), [v |-> inst_duration(g.nd[ind]), err |-> "none"])}

\* lines 164-170 for the terms that raise (bad) among those of last_nodes:
\* TypeError is caught and gives None, any other error is raised
DurationOf(g, last_nodes, bad) ==
  IF bad = {}
    THEN {[v |-> Max({(CHOOSE t \in TermOutcomes(g, ind) : TRUE).v : ind \in last_nodes}),
           err |-> "none"]}
  ELSE {IF t.err = "TypeError" THEN [v |-> None, err |-> "none"] ELSE t : t \in bad}

DurationOutcomes(g) ==
  IF predecessor_indices(g, 1) = {} THEN {[v |-> None, err |-> "none"]}
  ELSE DurationOf(g, predecessor_indices(g, 1),
                  UNION {{t \in TermOutcomes(g, ind) : t.err # "none"} :
                           ind \in predecessor_indices(g, 1)})

\* ------------------------------------------------------------------ targets
\* Instruction.inst_target of a generated instruction: one of two targets,
\* told by the position the instruction is named by
inst_target(w) == w.v[Len(w.v)] % 2

\* SequenceIR.inst_targets
RECURSIVE inst_targets(_)
inst_targets(g) ==
  UNION {IF IsSequenceIR(elements(g)[j]) THEN inst_targets(elements(g)[j].g)
         ELSE {inst_target(elements(g)[j])} : j \in 1..Len(elements(g))}

\* ------------------------------------------------- PulseIR (pulse_ir.py)
\* A PulseIR is a record with its alignment and the list of its elements; an
\* element is a generic instruction, an acquire instruction or a PulseIR.
NoTarget == [k |-> "None"]
Qubit(i) == [k |-> "Qubit", index |-> i]
QubitFrame(i) == [k |-> "QubitFrame", index |-> i]
MixedFrame(logical_element, frame) == [logical_element |-> logical_element, frame |-> frame]

IntOperand(n) == [k |-> "int", v |-> n]
FloatOperand == [k |-> "float", v |-> 0]
Waveform(d) == [k |-> "waveform", v |-> d]
OtherOperand == [k |-> "str", v |-> 0]

allowed_types == {"Play", "Delay", "SetFrequency", "ShiftFrequency", "SetPhase", "ShiftPhase"}

\* mutant of _validate_instruction: a Delay needs no logical element
validate_instruction_delay_unbound(instruction_type, operand, logical_element, frame) ==
  IF instruction_type \notin allowed_types THEN [err |-> "PulseError", duration |-> None]
  ELSE IF instruction_type = "Delay"
    THEN IF operand.k # "int" \/ operand.v < 0
           THEN [err |-> "PulseError", duration |-> None]
         ELSE [err |-> "none", duration |-> operand.v]
  ELSE IF instruction_type = "Play"
    THEN IF operand.k # "waveform" \/ logical_element = NoTarget \/ frame = NoTarget
           THEN [err |-> "PulseError", duration |-> None]
         ELSE [err |-> "none", duration |-> operand.v]
  ELSE IF operand.k \notin {"int", "float"} \/ frame = NoTarget
    THEN [err |-> "PulseError", duration |-> None]
  ELSE [err |-> "none", duration |-> 0]

\* GenericInstruction._validate_instruction: the error raised and the duration
validate_instruction(instruction_type, operand, logical_element, frame) ==
  IF instruction_type \notin allowed_types THEN [err |-> "PulseError", duration |-> None]
  ELSE IF instruction_type = "Delay"
    THEN IF operand.k # "int" \/ operand.v < 0 \/ logical_element = NoTarget
           THEN [err |-> "PulseError", duration |-> None]
         ELSE [err |-> "none", duration |-> operand.v]
  ELSE IF instruction_type = "Play"
    THEN IF operand.k # "waveform" \/ logical_element = NoTarget \/ frame = NoTarget
           THEN [err |-> "PulseError", duration |-> None]
         ELSE [err |-> "none", duration |-> operand.v]
  ELSE IF operand.k \notin {"int", "float"} \/ frame = NoTarget
    THEN [err |-> "PulseError", duration |-> None]
  ELSE [err |-> "none", duration |-> 0]

\* BaseIRInstruction.__init__, lines 64-67: the durations handed to it are
\* integers; with t0 None the second test compares None with 0
BaseInit(duration, t0) ==
  IF duration < 0 THEN "PulseError"
  ELSE IF t0 = None THEN "TypeError"
  ELSE IF t0 < 0 THEN "PulseError"
  ELSE "none"

\* lines 128-132 once the instruction is validated
GenericBuilt(instruction_type, operand, logical_element, frame, t0, val) ==
  IF val.err # "none" THEN [err |-> val.err]
  ELSE IF BaseInit(val.duration, t0) # "none" THEN [err |-> BaseInit(val.duration, t0)]
  ELSE [err |-> "none",
        v |-> [k |-> "generic", instruction_type |-> instruction_type, operand |-> operand,
               logical_element |-> logical_element, frame |-> frame,
               duration |-> val.duration, t0 |-> t0]]

\* GenericInstruction(instruction_type, operand, logical_element, frame, t0)
GenericInstruction(instruction_type, operand, logical_element, frame, t0) ==
  GenericBuilt(instruction_type, operand, logical_element, frame, t0,
               validate_instruction(instruction_type, operand, logical_element, frame))

\* AcquireInstruction(qubit, memory_slot, duration, t0)
AcquireInstruction(qubit, memory_slot, duration, t0) ==
  IF BaseInit(duration, t0) # "none" THEN [err |-> BaseInit(duration, t0)]
  ELSE [err |-> "none",
        v |-> [k |-> "acquire", qubit |-> qubit, memory_slot |-> memory_slot,
               duration |-> duration, t0 |-> t0]]

\* the arguments the two constructors are called with: a kind that is not
\* recognised, a negative operand, duration and t0, and t0 left out among them
Negative == -2
StartTimes == {None, Negative} \cup (0..MaxOffset)

GenericArguments ==
  [k : {"generic_args"},
   instruction_type : allowed_types \cup {"Acquire"},
   operand : {IntOperand(Negative), IntOperand(0), IntOperand(1), FloatOperand, Waveform(2),
              OtherOperand},
   logical_element : {NoTarget, Qubit(0)},
   frame : {NoTarget, QubitFrame(0)},
   t0 : StartTimes]

AcquireArguments ==
  [k : {"acquire_args"}, qubit : {Qubit(0)}, memory_slot : {0},
   duration : {Negative, 0, 1}, t0 : StartTimes]

\* PulseIR.__init__ and add_element with a list
PulseIR(alignment, els) == [k |-> "ir", alignment |-> alignment, elements |-> els]

Merged(st, r) == [v |-> st.v \cup r.v, err |-> r.err]

\* PulseIR.mixed_frames: the set and the error raised ("none" if it returned)
RECURSIVE mixed_frames(_)
RECURSIVE MixedFramesLoop(_, _)
MixedFramesLoop(els, st) ==
  IF els = <<>> \/ st.err # "none" THEN st
  ELSE IF Head(els).k = "generic"
    THEN IF Head(els).logical_element = NoTarget \/ Head(els).frame = NoTarget
           THEN [v |-> st.v, err |-> "PulseError"]
         ELSE MixedFramesLoop(Tail(els),
                [v |-> st.v \cup {MixedFrame(Head(els).logical_element, Head(els).frame)},
                 err |-> "none"])
  ELSE IF Head(els).k = "ir"
    THEN MixedFramesLoop(Tail(els), Merged(st, mixed_frames(Head(els))))
  ELSE MixedFramesLoop(Tail(els), st)

mixed_frames(ir) == MixedFramesLoop(ir.elements, [v |-> {}, err |-> "none"])

\* PulseIR.logical_elements: the last branch calls logical_elements on
\* whatever is left, a generic instruction without logical element included
RECURSIVE logical_elements(_)
RECURSIVE LogicalElementsLoop(_, _)
LogicalElementsLoop(els, st) ==
  IF els = <<>> \/ st.err # "none" THEN st
  ELSE IF Head(els).k = "generic" /\ Head(els).logical_element # NoTarget
    THEN LogicalElementsLoop(Tail(els),
           [v |-> st.v \cup {Head(els).logical_element}, err |-> "none"])
  ELSE IF Head(els).k = "acquire"
    THEN LogicalElementsLoop(Tail(els), [v |-> st.v \cup {Head(els).qubit}, err |-> "none"])
  ELSE IF Head(els).k = "ir"
    THEN LogicalElementsLoop(Tail(els), Merged(st, logical_elements(Head(els))))
  ELSE [v |-> st.v, err |-> "AttributeError"]

logical_elements(ir) == LogicalElementsLoop(ir.elements, [v |-> {}, err |-> "none"])

\* PulseIR.frames: an element that is no generic instruction with a frame and
\* no PulseIR is passed over
RECURSIVE frames(_)
RECURSIVE FramesLoop(_, _)
FramesLoop(els, st) ==
  IF els = <<>> \/ st.err # "none" THEN st
  ELSE IF Head(els).k = "generic" /\ Head(els).frame # NoTarget
    THEN FramesLoop(Tail(els), [v |-> st.v \cup {Head(els).frame}, err |-> "none"])
  ELSE IF Head(els).k = "ir"
    THEN FramesLoop(Tail(els), Merged(st, frames(Head(els))))
  ELSE FramesLoop(Tail(els), st)

frames(ir) == FramesLoop(ir.elements, [v |-> {}, err |-> "none"])

\* PulseIR.flatten: the flat PulseIR and the error raised ("none" if it returned)
RECURSIVE legacy_flatten(_)
RECURSIVE LegacyFlattenLoop(_, _)
RECURSIVE LegacyFlattenLoopLeavesOnly(_, _)

Extended_ir(st, r) ==
  [v |-> PulseIR(None, st.v.elements \o r.v.elements), err |-> r.err]

\* mutant of the loop of flatten: the elements of a nested PulseIR are left out
LegacyFlattenLoopLeavesOnly(els, st) ==
  IF els = <<>> \/ st.err # "none" THEN st
  ELSE IF Head(els).k = "ir" THEN LegacyFlattenLoopLeavesOnly(Tail(els), st)
  ELSE LegacyFlattenLoopLeavesOnly(Tail(els),
         [v |-> PulseIR(None, Append(st.v.elements, Head(els))), err |-> "none"])

LegacyFlattenLoop(els, st) ==
  IF els = <<>> \/ st.err # "none" THEN st
  ELSE IF Head(els).k # "ir"
    THEN IF Head(els).t0 = None THEN [v |-> st.v, err |-> "PulseError"]
         ELSE LegacyFlattenLoop(Tail(els),
                [v |-> PulseIR(None, Append(st.v.elements, Head(els))), err |-> "none"])
  ELSE LegacyFlattenLoop(Tail(els), Extended_ir(st, legacy_flatten(Head(els))))

legacy_flatten(ir) == LegacyFlattenLoop(ir.elements, [v |-> PulseIR(None, <<>>), err |-> "none"])

\* the instructions of the generated PulseIR programs: what the two
\* constructors build of a few arguments
Built(S) == {r.v : r \in {x \in S : x.err = "none"}}

LegacyPool ==
  Built({GenericInstruction(ty, op, le, fr, t0) :
           ty \in {"Play", "Delay", "SetFrequency"}, op \in {IntOperand(1), Waveform(2)},
           le \in {NoTarget, Qubit(0)}, fr \in {NoTarget, QubitFrame(0)}, t0 \in {None, 0}})
  \cup Built({AcquireInstruction(Qubit(1), 0, 1, t0) : t0 \in {None, 0}})

\* the element lists of exactly n elements in all, nested to depth d
RECURSIVE LegacyForests(_, _)
LegacyChildren(m, d) ==
  (IF m = 1 THEN LegacyPool ELSE {})
  \cup (IF d >= 1 THEN {PulseIR(AlignLeft, es) : es \in LegacyForests(m - 1, d - 1)} ELSE {})

LegacyForests(n, d) ==
  IF n = 0 THEN {<<>>}
  ELSE UNION {{<<c>> \o r : c \in LegacyChildren(m, d), r \in LegacyForests(n - m, d)} :
                m \in 1..n}

LegacyPrograms ==
  UNION {{PulseIR(AlignLeft, es) : es \in LegacyForests(n, MaxDepth)} : n \in 0..MaxNodes}

\* ------------------------- addressing values (logical_elements_frames.py)
\* A value is a record with its class (type), the attributes __init__ sets
\* and the hash __init__ stores. A string is the sequence of its pieces, an
\* index the tuple of its integers (one for a qubit, two for a coupler); the
\* hash of a string or a tuple is kept as the value hashed, so equal values
\* hash equal as they do in Python.
Decimal == <<"0", "1", "2", "3", "4", "5", "6", "7", "8", "9">>

\* str(n) for a non-negative integer
RECURSIVE str(_)
str(n) == IF n < 10 THEN <<Decimal[n + 1]>> ELSE str(n \div 10) \o <<Decimal[(n % 10) + 1]>>

hash(x) == [str |-> x]
hash_pair(x, y) == [first |-> x, second |-> y]
hash_triple(x, y, z) == [first |-> x, second |-> y, third |-> z]

\* LogicalElement.__init__ for Qubit: the index is validated, then the name hashed
NewQubit(index) ==
  IF index < 0 THEN [err |-> "PulseError"]
  ELSE [err |-> "none",
        v |-> [type |-> "Qubit", index |-> <<index>>, hash |-> hash(<<"Q">> \o str(index))]]

\* Coupler.__init__: the index is the tuple of the two qubit indices
NewCoupler(qubit_index_1, qubit_index_2) ==
  IF qubit_index_1 < 0 \/ qubit_index_2 < 0 THEN [err |-> "PulseError"]
  ELSE [err |-> "none",
        v |-> [type |-> "Coupler", index |-> <<qubit_index_1, qubit_index_2>>,
               hash |-> hash(<<"Coupler", "(">> \o str(qubit_index_1) \o <<", ">>
                             \o str(qubit_index_2) \o <<")">>)]]

\* QubitFrame.__init__: Frame.__init__ stores the name and its hash
NewQubitFrame(qubit_index) ==
  IF qubit_index < 0 THEN [err |-> "PulseError"]
  ELSE [err |-> "none",
        v |-> [type |-> "QubitFrame", index |-> qubit_index,
               name |-> <<"QubitFrame">> \o str(qubit_index),
               hash |-> hash(<<"QubitFrame">> \o str(qubit_index))]]

\* MeasurementFrame.__init__
NewMeasurementFrame(qubit_index) ==
  IF qubit_index < 0 THEN [err |-> "PulseError"]
  ELSE [err |-> "none",
        v |-> [type |-> "MeasurementFrame", index |-> qubit_index,
               name |-> <<"MeasurementFrame">> \o str(qubit_index),
               hash |-> hash(<<"MeasurementFrame">> \o str(qubit_index))]]

\* GenericFrame.__init__: phase is None when it is omitted; the three
\* arguments are stored and hashed as they are given
NewGenericFrame(name, frequency, phase) ==
  [err |-> "none",
   v |-> [type |-> "GenericFrame", name |-> name, frequency |-> frequency, phase |-> phase,
          hash |-> hash_triple(name, frequency, phase)]]

\* the property GenericFrame.phase
GenericFrame_phase(self) == IF self.phase = None THEN 0 ELSE self.phase

\* MixedFrame.__init__: the hash of the tuple is made of the hashes of the two
NewMixedFrame(logical_element, frame) ==
  [err |-> "none",
   v |-> [type |-> "MixedFrame", logical_element |-> logical_element, frame |-> frame,
          hash |-> hash_pair(logical_element.hash, frame.hash)]]

\* CRMixedFrame.__init__ calls MixedFrame.__init__
NewCRMixedFrame(qubit, qubit_frame) ==
  [err |-> "none",
   v |-> [type |-> "CRMixedFrame", logical_element |-> qubit, frame |-> qubit_frame,
          hash |-> hash_pair(qubit.hash, qubit_frame.hash)]]

Truth(b) == IF b THEN "True" ELSE "False"

\* LogicalElement.__eq__
LogicalElement_eq(self, other) ==
  Truth(self.type = other.type /\ self.index = other.index)

\* Frame.__eq__
Frame_eq(self, other) ==
  Truth(self.type = other.type /\ self.name = other.name)

\* GenericFrame.__eq__: the stored phase is compared, None when it was omitted
GenericFrame_eq(self, other) ==
  Truth(/\ self.type = other.type
        /\ self.name = other.name
        /\ self.frequency = other.frequency
        /\ self.phase = other.phase)

\* x == y for two addressing values: the __eq__ of the class of x
RECURSIVE addr_eq(_, _)

\* mutant of MixedFrame.__eq__: the classes are compared first
MixedFrame_eq_same_type(self, other) ==
  IF self.type # other.type THEN "False"
  ELSE IF addr_eq(self.logical_element, other.logical_element) # "True" THEN "False"
  ELSE addr_eq(self.frame, other.frame)

\* MixedFrame.__eq__: the attributes of other are read whatever its class
MixedFrame_eq(self, other) ==
  IF "logical_element" \notin DOMAIN other THEN "AttributeError"
  ELSE IF addr_eq(self.logical_element, other.logical_element) # "True" THEN "False"
  ELSE addr_eq(self.frame, other.frame)

addr_eq(x, y) ==
  IF x.type \in {"Qubit", "Coupler"} THEN LogicalElement_eq(x, y)
  ELSE IF x.type \in {"QubitFrame", "MeasurementFrame"} THEN Frame_eq(x, y)
  ELSE IF x.type = "GenericFrame" THEN GenericFrame_eq(x, y)
  ELSE MixedFrame_eq(x, y)

\* the values built of a few arguments, a negative index among them
Indices == (-1)..MaxIndex
FrameNames == {"a", "b"}
Frequencies == {1, 2}
Phases == {None, 0, 1}

LogicalElements ==
  Built({NewQubit(i) : i \in Indices} \cup {NewCoupler(i, j) : i \in Indices, j \in Indices})

Frames ==
  Built({NewQubitFrame(i) : i \in Indices} \cup {NewMeasurementFrame(i) : i \in Indices}
        \cup {NewGenericFrame(n, f, ph) : n \in FrameNames, f \in Frequencies, ph \in Phases})

MixedFrames ==
  Built({NewMixedFrame(le, fr) : le \in LogicalElements, fr \in Frames}
        \cup {NewCRMixedFrame(le, fr) :
                le \in {x \in LogicalElements : x.type = "Qubit"},
                fr \in {x \in Frames : x.type = "QubitFrame"}})

AddressValues == LogicalElements \cup Frames \cup MixedFrames

\* ------------------------------------------------------------ the program
\* the places of a program's time-table entries: the path of node indices to
\* a graph (<<>> is the program itself) and a node index of that graph
RECURSIVE ElementPlaces(_)
ElementPlaces(g) ==
  {<<<<>>, i>> : i \in (DOMAIN g.nd) \ {0, 1}}
  \cup UNION {{<<<<n>> \o pl[1], pl[2]>> : pl \in ElementPlaces(g.nd[n].g)} :
                n \in {x \in DOMAIN g.nd : IsSequenceIR(g.nd[x])}}

\* the entries the scheduler may write: those of the elements at every depth
\* and those of the program's own two sentinels
Places(g) == ElementPlaces(g) \cup {<<<<>>, 0>>, <<<<>>, 1>>}

\* the scheduling pass writing one time-table entry
RECURSIVE WriteTime(_, _, _, _)
WriteTime(g, path, i, t) ==
  IF path = <<>> THEN [g EXCEPT !.tt = SetTimeEntry(g.tt, i, t)]
  ELSE set_node_data(g, Head(path),
                     Nested(WriteTime(g.nd[Head(path)].g, Tail(path), i, t)))

\* the scheduling pass writing an offset for every element at every depth
RECURSIVE WriteAll(_, _)
WriteAll(g, places) ==
  IF places = {} THEN {g}
  ELSE LET pl == CHOOSE x \in places : TRUE
       IN UNION {WriteAll(WriteTime(g, pl[1], pl[2], t), places \ {pl}) : t \in 0..MaxOffset}

VARIABLES
  prog,   \* the program, a SequenceIR (a PulseIR where PulseIR is run), or
          \* the value an operation of the addressing values is called on
  pre,    \* the program as it was when the last operation was called
  out,    \* what the last operation returned
  err,    \* the error the last operation raised, "none" if it returned
  adj,    \* whether the last pass ran the time-table update of the inlining branch
  ops,    \* the operations run so far
  timed   \* the number of time-table entries written

vars == <<prog, pre, out, err, adj, ops, timed>>

\* a program as it is built and sequenced, nothing run on it yet
Fresh ==
  /\ pre = prog
  /\ out = prog
  /\ err = "none"
  /\ adj = FALSE
  /\ ops = <<>>
  /\ timed = 0

Init ==
  /\ \/ prog \in Programs
     \/ prog \in SiblingPrograms
     \/ prog \in ChainPrograms
  /\ Fresh

SchedInit ==
  /\ \/ prog \in SmallPrograms
     \/ prog \in ChainPrograms
  /\ Fresh

\* the scheduler writes an entry of a time table before any pass has run
SetTime ==
  /\ ops = <<>>
  /\ timed < MaxTimed
  /\ timed + Len(ops) < MaxSteps
  /\ \E pl \in Places(prog), t \in 0..MaxTime :
       prog' = WriteTime(prog, pl[1], pl[2], t)
  /\ pre' = prog'
  /\ out' = prog'
  /\ timed' = timed + 1
  /\ UNCHANGED <<err, adj, ops>>

\* the scheduler schedules the whole program before any pass has run
Schedule ==
  /\ ops = <<>>
  /\ timed = 0
  /\ ElementPlaces(prog) # {}
  /\ prog' \in WriteAll(prog, ElementPlaces(prog))
  /\ pre' = prog'
  /\ out' = prog'
  /\ timed' = timed + 1
  /\ UNCHANGED <<err, adj, ops>>

CanRun == timed + Len(ops) < MaxSteps /\ err = "none"

\* ConsolidateSequences().run(prog): the pass works on prog itself
Consolidate ==
  /\ CanRun
  /\ \E r \in {run(prog)} :
       /\ prog' = r.g
       /\ out' = r.g
       /\ err' = r.err
       /\ adj' = r.adj
  /\ pre' = prog
  /\ ops' = Append(ops, "consolidate")
  /\ UNCHANGED timed

\* prog.flatten(inplace=True)
FlattenSelf ==
  /\ CanRun
  /\ \E r \in {flatten(prog, TRUE)} :
       /\ prog' = r.g
       /\ out' = r.g
       /\ err' = r.err
  /\ pre' = prog
  /\ adj' = FALSE
  /\ ops' = Append(ops, "flatten_inplace")
  /\ UNCHANGED timed

\* prog.flatten(): the copy is flattened and returned
FlattenCopy ==
  /\ CanRun
  /\ \E r \in {flatten(prog, FALSE)} :
       /\ out' = r.g
       /\ err' = r.err
  /\ prog' = flatten_receiver(prog, FALSE)
  /\ pre' = prog
  /\ adj' = FALSE
  /\ ops' = Append(ops, "flatten")
  /\ UNCHANGED timed

\* a query is run once, on a program no operation has failed on
Queries == {"duration", "scheduled_elements", "recursive_scheduled_elements", "eq"}

CanQuery ==
  /\ err = "none"
  /\ IF ops = <<>> THEN TRUE ELSE ops[Len(ops)] \notin Queries

\* prog.duration
Duration ==
  /\ CanQuery
  /\ \E r \in DurationOutcomes(prog) :
       /\ out' = r.v
       /\ err' = r.err
  /\ pre' = prog
  /\ ops' = Append(ops, "duration")
  /\ UNCHANGED <<prog, adj, timed>>

\* prog.scheduled_elements()
ScheduledElements ==
  /\ CanQuery
  /\ \E r \in {scheduled_elements(prog, FALSE)} :
       /\ out' = r.l
       /\ err' = r.err
  /\ pre' = prog
  /\ ops' = Append(ops, "scheduled_elements")
  /\ UNCHANGED <<prog, adj, timed>>

\* prog.scheduled_elements(recursive=True)
RecursiveScheduledElements ==
  /\ CanQuery
  /\ \E r \in {scheduled_elements(prog, TRUE)} :
       /\ out' = r.l
       /\ err' = r.err
  /\ pre' = prog
  /\ ops' = Append(ops, "recursive_scheduled_elements")
  /\ UNCHANGED <<prog, adj, timed>>

\* the graphs a program is compared with
Others ==
  FlatPrograms \cup UnsequencedPrograms
  \cup {[g EXCEPT !.al = AlignRight] : g \in {x \in FlatPrograms : Cardinality(DOMAIN x.nd) <= 3}}

\* prog == other: pre is the other graph, out what the comparison returned
Compare ==
  /\ CanQuery
  /\ \E other \in Others :
       /\ pre' = other
       /\ \E r \in eq_outcomes(prog, other) :
            /\ out' = (r = "True")
            /\ err' = IF r = "AttributeError" THEN r ELSE "none"
  /\ ops' = Append(ops, "eq")
  /\ UNCHANGED <<prog, adj, timed>>

\* the nested graphs that are appended: an empty one and a sequential chain of
\* two instructions named after the node i they are appended as
Appended(i) ==
  {Nested(NewSequenceIR(AlignLeft)),
   Nested(Build(AlignSequential, Leaves(<<i>>, 2), "chain"))}

\* prog.append(instruction)
AppendInstruction ==
  /\ CanRun
  /\ prog' = append(prog, Inst(<<NextIndex(prog)>>))
  /\ pre' = prog
  /\ out' = prog'
  /\ ops' = Append(ops, "append")
  /\ UNCHANGED <<err, adj, timed>>

\* prog.append(nested SequenceIR)
AppendNested ==
  /\ CanRun
  /\ \E w \in Appended(NextIndex(prog)) : prog' = append(prog, w)
  /\ pre' = prog
  /\ out' = prog'
  /\ ops' = Append(ops, "append")
  /\ UNCHANGED <<err, adj, timed>>

\* the program is a PulseIR
Legacy == "elements" \in DOMAIN prog

\* prog.flatten() of a PulseIR
LegacyFlatten ==
  /\ CanRun
  /\ Legacy
  /\ \E r \in {legacy_flatten(prog)} :
       /\ out' = r.v
       /\ err' = r.err
  /\ pre' = prog
  /\ ops' = Append(ops, "legacy_flatten")
  /\ UNCHANGED <<prog, adj, timed>>

\* prog.mixed_frames() of a PulseIR
MixedFramesOf ==
  /\ ops = <<>>
  /\ \E r \in {mixed_frames(prog)} :
       /\ out' = r.v
       /\ err' = r.err
  /\ pre' = prog
  /\ ops' = Append(ops, "mixed_frames")
  /\ UNCHANGED <<prog, adj, timed>>

\* prog.logical_elements() of a PulseIR
LogicalElementsOf ==
  /\ ops = <<>>
  /\ \E r \in {logical_elements(prog)} :
       /\ out' = r.v
       /\ err' = r.err
  /\ pre' = prog
  /\ ops' = Append(ops, "logical_elements")
  /\ UNCHANGED <<prog, adj, timed>>

\* prog.frames() of a PulseIR
FramesOf ==
  /\ ops = <<>>
  /\ \E r \in {frames(prog)} :
       /\ out' = r.v
       /\ err' = r.err
  /\ pre' = prog
  /\ ops' = Append(ops, "frames")
  /\ UNCHANGED <<prog, adj, timed>>

\* GenericInstruction(...) called with the arguments prog: what is built, if
\* it is built, and the error raised
ConstructGeneric ==
  /\ ops = <<>>
  /\ prog.k = "generic_args"
  /\ \E r \in {GenericInstruction(prog.instruction_type, prog.operand, prog.logical_element,
                                   prog.frame, prog.t0)} :
       /\ out' = IF r.err = "none" THEN r.v ELSE NoTarget
       /\ err' = r.err
  /\ pre' = prog
  /\ ops' = Append(ops, "generic")
  /\ UNCHANGED <<prog, adj, timed>>

\* AcquireInstruction(...) called with the arguments prog
ConstructAcquire ==
  /\ ops = <<>>
  /\ prog.k = "acquire_args"
  /\ \E r \in {AcquireInstruction(prog.qubit, prog.memory_slot, prog.duration, prog.t0)} :
       /\ out' = IF r.err = "none" THEN r.v ELSE NoTarget
       /\ err' = r.err
  /\ pre' = prog
  /\ ops' = Append(ops, "acquire")
  /\ UNCHANGED <<prog, adj, timed>>

\* prog == other for two addressing values
EqualValues ==
  /\ ops = <<>>
  /\ \E other \in AddressValues :
       /\ pre' = other
       /\ \E r \in {addr_eq(prog, other)} :
            /\ out' = (r = "True")
            /\ err' = IF r = "AttributeError" THEN r ELSE "none"
  /\ ops' = Append(ops, "addr_eq")
  /\ UNCHANGED <<prog, adj, timed>>

\* hash(prog): __hash__ returns the stored hash
HashValue ==
  /\ ops = <<>>
  /\ out' = prog.hash
  /\ pre' = prog
  /\ ops' = Append(ops, "hash")
  /\ UNCHANGED <<prog, err, adj, timed>>

\* prog.phase of a GenericFrame
Phase ==
  /\ ops = <<>>
  /\ prog.type = "GenericFrame"
  /\ out' = GenericFrame_phase(prog)
  /\ pre' = prog
  /\ ops' = Append(ops, "phase")
  /\ UNCHANGED <<prog, err, adj, timed>>

\* the pass run, and run again, on an unscheduled program
Next == Consolidate

Spec == Init /\ [][Next]_vars

\* the pass run on a program the scheduler has written offsets into
SchedNext == SetTime \/ Consolidate

SchedSpec == SchedInit /\ [][SchedNext]_vars

\* a program flattened, in place or as a copy, scheduled or not
FlattenInit ==
  /\ prog \in FlatPrograms
  /\ Fresh

FlattenNext == SetTime \/ Schedule \/ FlattenSelf \/ FlattenCopy

FlattenSpec == FlattenInit /\ [][FlattenNext]_vars

\* a program of either representation scheduled and flattened
TargetsInit ==
  /\ \/ prog \in FlatPrograms
     \/ prog \in LegacyPrograms
  /\ Fresh

TargetsNext ==
  \/ ~Legacy /\ Schedule
  \/ ~Legacy /\ FlattenSelf
  \/ ~Legacy /\ FlattenCopy
  \/ LegacyFlatten

TargetsSpec == TargetsInit /\ [][TargetsNext]_vars

\* a program scheduled, consolidated or flattened, then queried
QueryNext ==
  \/ SetTime
  \/ Schedule
  \/ Consolidate
  \/ FlattenSelf
  \/ Duration
  \/ ScheduledElements
  \/ RecursiveScheduledElements

QuerySpec == FlattenInit /\ [][QueryNext]_vars

\* a program, written into by the scheduler or consolidated, compared with others
EqInit ==
  /\ \/ prog \in FlatPrograms
     \/ prog \in UnsequencedPrograms
  /\ Fresh

EqNext == SetTime \/ Consolidate \/ Compare

EqSpec == EqInit /\ [][EqNext]_vars

\* any sequence of append, consolidation and flatten on a program
OpsInit ==
  /\ \/ prog \in SmallPrograms
     \/ prog \in ChainPrograms
     \/ prog \in UnsequencedPrograms
  /\ Fresh

OpsNext ==
  \/ AppendInstruction
  \/ AppendNested
  \/ Consolidate
  \/ FlattenSelf
  \/ FlattenCopy

OpsSpec == OpsInit /\ [][OpsNext]_vars

\* an addressing value compared, hashed or asked for its phase
AddrInit ==
  /\ prog \in AddressValues
  /\ Fresh

AddrNext ==
  \/ EqualValues
  \/ HashValue
  \/ Phase

AddrSpec == AddrInit /\ [][AddrNext]_vars

\* an instruction constructed of given arguments
InstrInit ==
  /\ \/ prog \in GenericArguments
     \/ prog \in AcquireArguments
  /\ Fresh

InstrNext ==
  \/ ConstructGeneric
  \/ ConstructAcquire

InstrSpec == InstrInit /\ [][InstrNext]_vars

\* a PulseIR asked for the values its instructions refer to
RefsInit ==
  /\ prog \in LegacyPrograms
  /\ Fresh

RefsNext ==
  \/ MixedFramesOf
  \/ LogicalElementsOf
  \/ FramesOf

RefsSpec == RefsInit /\ [][RefsNext]_vars

LastOp == IF ops = <<>> THEN "init" ELSE ops[Len(ops)]
\* ------------------------------------------------------- derived predicates
Elems(g) == (DOMAIN g.nd) \ {0, 1}
NestedIds(g) == {n \in Elems(g) : IsSequenceIR(g.nd[n])}
LeafIds(g) == {n \in Elems(g) : ~IsSequenceIR(g.nd[n])}
EmptyIds(g) == {n \in NestedIds(g) : Elems(g.nd[n].g) = {}}

\* a non-sentinel time-table entry is set in g or in a nested graph of g
RECURSIVE AnyTimeSet(_)
AnyTimeSet(g) ==
  \/ \E x \in Elems(g) : TimeOf(g, x) # None
  \/ \E n \in NestedIds(g) : AnyTimeSet(g.nd[n].g)

\* a nested graph without elements is left in g, at some depth
RECURSIVE HasEmptyNested(_)
HasEmptyNested(g) ==
  \/ EmptyIds(g) # {}
  \/ \E n \in NestedIds(g) : HasEmptyNested(g.nd[n].g)

\* the nodes reached from the nodes of S along the edges of g
RECURSIVE ReachFrom(_, _)
ReachFrom(g, S) ==
  LET T == S \cup {e[2] : e \in {x \in g.ed : x[1] \in S}}
  IN IF T = S THEN S ELSE ReachFrom(g, T)

RECURSIVE ReachTo(_, _)
ReachTo(g, S) ==
  LET T == S \cup {e[1] : e \in {x \in g.ed : x[2] \in S}}
  IN IF T = S THEN S ELSE ReachTo(g, T)

\* g and its nested graphs are sequenced: Input precedes Output and every
\* element lies on a path from Input to Output
RECURSIVE Sequenced(_)
Sequenced(g) ==
  /\ 1 \in ReachFrom(g, {0})
  /\ Elems(g) \subseteq (ReachFrom(g, {0}) \cap ReachTo(g, {1}))
  /\ \A n \in NestedIds(g) : Sequenced(g.nd[n].g)

Consolidated == LastOp = "consolidate" /\ err = "none"

\* ------------------------------------------------------------------- claims
\* C1: Consolidation is idempotent: a pass run on the result of a pass
\* leaves a graph structurally equal to that result, nested graphs included.
C1_Idempotent ==
  (Consolidated /\ Len(ops) >= 2 /\ ops[Len(ops) - 1] = "consolidate") => Eq(prog, pre)

\* C2 as stated: if a non-sentinel time-table entry is set in the graph or in
\* a nested graph at any depth, the pass fails with the already-scheduled
\* error and the whole graph is as it was.
C2_WholeGraphUnchanged ==
  (LastOp = "consolidate" /\ AnyTimeSet(pre)) =>
    (err = "PulseCompilerError" /\ prog = pre)

\* C2 amended: with such an entry the pass always fails with the
\* already-scheduled error, and the whole graph is as it was when the entry
\* is one of the graph's own elements.
C2_FailsAndTopUnchanged ==
  (LastOp = "consolidate" /\ AnyTimeSet(pre)) =>
    /\ err = "PulseCompilerError"
    /\ AlreadyScheduled(pre) => prog = pre

C2_Witness ==
  /\ LastOp = "consolidate"
  /\ AlreadyScheduled(pre)
  /\ EmptyIds(pre) # {}
  /\ err = "PulseCompilerError"
  /\ prog = pre
\* the precedence relation of a flattened graph: the pairs of payloads of
\* which the second is reached from the first
Precedence(g) ==
  {<<g.nd[e[1]], g.nd[e[2]]>> :
     e \in {x \in (DOMAIN g.nd) \X (DOMAIN g.nd) :
              x[1] # x[2] /\ x[2] \in ReachFrom(g, {x[1]})}}

SingleSeqIds(g) ==
  {n \in NestedIds(g) : /\ g.al = AlignSequential
                        /\ g.nd[n].g.al = AlignSequential
                        /\ Cardinality(Elems(g.nd[n].g)) = 1}

\* C4 as stated: a sequential nested graph with one interior node in a
\* sequential parent is inlined by substitution: its node is removed and the
\* child is spliced in under a new index, the node is not kept with its
\* payload replaced.
C4_InlinedBySubstitution ==
  Consolidated =>
    \A n \in SingleSeqIds(pre) :
      LET c == pre.nd[n].g.nd[CHOOSE x \in Elems(pre.nd[n].g) : TRUE]
      IN ~IsSequenceIR(c) => ~(n \in DOMAIN prog.nd /\ prog.nd[n] = c)

\* C4 amended: the single-element rule comes first: the node is kept under
\* its index and its payload is replaced by the single element the nested
\* graph holds once it is consolidated itself.
C4_ReplacedInPlace ==
  Consolidated =>
    \A n \in SingleSeqIds(pre) :
      LET sub == pre.nd[n].g
          c == sub.nd[CHOOSE x \in Elems(sub) : TRUE]
          r == consolidate_recursion(sub).g
      IN /\ ~IsSequenceIR(c) => (n \in DOMAIN prog.nd /\ prog.nd[n] = c)
         /\ Len(elements(r)) = 1 => (n \in DOMAIN prog.nd /\ prog.nd[n] = elements(r)[1])

C4_Witness ==
  /\ Consolidated
  /\ \E n \in SingleSeqIds(pre) :
       /\ ~IsSequenceIR(pre.nd[n].g.nd[CHOOSE x \in Elems(pre.nd[n].g) : TRUE])
       /\ prog.nd[n] = pre.nd[n].g.nd[CHOOSE x \in Elems(pre.nd[n].g) : TRUE]
       /\ DOMAIN prog.nd = DOMAIN pre.nd

\* the edges among the nodes of Keep that g has or that lead through removed
\* nodes only
Contracted(g, Keep) ==
  {e \in Keep \X Keep :
     e[2] \in ReachFrom([g EXCEPT !.ed = {x \in g.ed : x[1] = e[1] \/ x[1] \notin Keep}],
                        {e[1]}) \ {e[1]}}

\* the pass inlines a nested graph into g, which hands out new node indices
InlinesAny(g) ==
  /\ g.al = AlignSequential
  /\ \E n \in NestedIds(g) \ EmptyIds(g) : g.nd[n].g.al = AlignSequential

\* C5: an empty nested graph that is a direct child is removed whatever its
\* alignment, every predecessor of it is connected to every successor of it,
\* and nothing else of the parent changes.
C5_EmptyRemoved ==
  (Consolidated /\ EmptyIds(pre) # {}) =>
    /\ ~InlinesAny(pre) => \A n \in EmptyIds(pre) : n \notin DOMAIN prog.nd
    /\ \A n \in EmptyIds(pre) :
         \A p \in predecessor_indices(pre, n) \ NestedIds(pre) :
           \A q \in successor_indices(pre, n) \ NestedIds(pre) : <<p, q>> \in prog.ed
    /\ NestedIds(pre) = EmptyIds(pre) =>
         /\ prog.nd = [i \in (DOMAIN pre.nd) \ EmptyIds(pre) |-> pre.nd[i]]
         /\ prog.ed = Contracted(pre, (DOMAIN pre.nd) \ EmptyIds(pre))
         /\ prog.al = pre.al
         /\ prog.tt = pre.tt

C5_Witness ==
  /\ Consolidated
  /\ \E n \in EmptyIds(pre) :
       /\ pre.nd[n].g.al = AlignFunc
       /\ predecessor_indices(pre, n) \cap LeafIds(pre) # {}
       /\ successor_indices(pre, n) \cap LeafIds(pre) # {}
  /\ NestedIds(pre) = EmptyIds(pre)
  /\ Cardinality(DOMAIN prog.nd) < Cardinality(DOMAIN pre.nd)

\* C6: after a pass that returned no nested graph without elements is left
\* at any depth.
C6_NoEmptyNestedLeft == Consolidated => ~HasEmptyNested(prog)
\* the nested graphs of g with a degenerate alignment that hold one element
\* once they are consolidated themselves
SingleIds(g) ==
  {n \in NestedIds(g) \ EmptyIds(g) :
     /\ g.nd[n].g.al \in {AlignLeft, AlignRight, AlignSequential}
     /\ Len(elements(consolidate_recursion(g.nd[n].g).g)) = 1}

\* the nested graphs of g with a degenerate alignment whose one element is
\* an instruction
SingleInstIds(g) ==
  {n \in NestedIds(g) :
     /\ g.nd[n].g.al \in {AlignLeft, AlignRight, AlignSequential}
     /\ Cardinality(Elems(g.nd[n].g)) = 1
     /\ LeafIds(g.nd[n].g) # {}}

\* C7: a nested graph with one interior node and left, right or sequential
\* alignment is replaced in place by that child: the parent keeps its node
\* indices and its edges, only the payload of the node changes.
C7_SingleReplacedInPlace ==
  Consolidated =>
    /\ \A n \in SingleInstIds(pre) :
         /\ n \in DOMAIN prog.nd
         /\ prog.nd[n] = pre.nd[n].g.nd[CHOOSE x \in Elems(pre.nd[n].g) : TRUE]
    /\ \A n \in SingleIds(pre) :
         /\ n \in DOMAIN prog.nd
         /\ prog.nd[n] = elements(consolidate_recursion(pre.nd[n].g).g)[1]
    /\ (NestedIds(pre) # {} /\ NestedIds(pre) = SingleIds(pre)) =>
         /\ DOMAIN prog.nd = DOMAIN pre.nd
         /\ prog.ed = pre.ed
         /\ prog.al = pre.al
         /\ prog.tt = pre.tt
         /\ \A i \in (DOMAIN pre.nd) \ NestedIds(pre) : prog.nd[i] = pre.nd[i]

C7_Witness ==
  /\ Consolidated
  /\ \E n \in SingleInstIds(pre) :
       /\ pre.nd[n].g.al = AlignRight
       /\ ~IsSequenceIR(prog.nd[n])
  /\ NestedIds(pre) = SingleIds(pre)
  /\ LeafIds(pre) # {}
  /\ prog.ed = pre.ed

\* the non-empty nested graphs of g with equispaced or function alignment
KeptIds(g) ==
  {n \in NestedIds(g) \ EmptyIds(g) : g.nd[n].g.al \in {AlignEquispaced, AlignFunc}}

StableEdges(g, n) ==
  {e \in g.ed : (e[1] = n /\ e[2] \notin NestedIds(g)) \/ (e[2] = n /\ e[1] \notin NestedIds(g))}

\* C8: a non-empty nested graph with equispaced or function alignment is
\* never simplified: it stays the payload of its node, with its edges, and
\* when it holds one instruction and is the only nested graph the parent is
\* structurally equal to what it was.
C8_KeptAlignments ==
  Consolidated =>
    \A n \in KeptIds(pre) :
      /\ n \in DOMAIN prog.nd
      /\ IsSequenceIR(prog.nd[n])
      /\ prog.nd[n].g.al = pre.nd[n].g.al
      /\ StableEdges(pre, n) \subseteq prog.ed
      /\ NestedIds(pre) = {n} => {e \in prog.ed : e[1] = n \/ e[2] = n} = StableEdges(pre, n)
      /\ (NestedIds(pre) = {n} /\ NestedIds(pre.nd[n].g) = {}) => (Eq(prog, pre) /\ prog = pre)

C8_Witness ==
  /\ Consolidated
  /\ \E n \in KeptIds(pre) :
       /\ NestedIds(pre) = {n}
       /\ Cardinality(Elems(pre.nd[n].g)) = 1
       /\ LeafIds(pre.nd[n].g) # {}
       /\ pre.nd[n].g.al = AlignEquispaced
       /\ pre.al = AlignSequential
  /\ LeafIds(pre) # {}
  /\ prog = pre
\* a sequential chain whose elements are instructions or nested sequential
\* chains of two or more instructions
IsChainProgram(g) ==
  /\ g.al = AlignSequential
  /\ g.ed = ChainEdges(Interior(g))
  /\ NestedIds(g) # {}
  /\ \A n \in NestedIds(g) :
       LET sub == g.nd[n].g
       IN /\ sub.al = AlignSequential
          /\ NestedIds(sub) = {}
          /\ Cardinality(Elems(sub)) >= 2
          /\ sub.ed = ChainEdges(Interior(sub))

\* the instructions of a chain program in the order of the chain
RECURSIVE ChainOrder(_, _)
ChainOrder(g, ids) ==
  IF ids = <<>> THEN <<>>
  ELSE (IF IsSequenceIR(g.nd[Head(ids)]) THEN elements(g.nd[Head(ids)].g)
        ELSE <<g.nd[Head(ids)]>>) \o ChainOrder(g, Tail(ids))

\* C9: a sequential nested graph of two or more instructions in a sequential
\* parent is inlined into one chain: predecessor, the instructions in their
\* order, successor; the nested node and the copied sentinels are gone.
C9_InlinedChain ==
  (Consolidated /\ IsChainProgram(pre)) =>
    LET order == <<InNode>> \o ChainOrder(pre, Interior(pre)) \o <<OutNode>>
    IN /\ NestedIds(prog) = {}
       /\ prog.nd[0] = InNode /\ prog.nd[1] = OutNode
       /\ Cardinality(DOMAIN prog.nd) = Len(order)
       /\ {prog.nd[i] : i \in DOMAIN prog.nd} = {order[j] : j \in 1..Len(order)}
       /\ Cardinality(prog.ed) = Len(order) - 1
       /\ {<<prog.nd[e[1]], prog.nd[e[2]]>> : e \in prog.ed}
            = {<<order[j], order[j + 1]>> : j \in 1..(Len(order) - 1)}

C9_Witness ==
  /\ Consolidated
  /\ IsChainProgram(pre)
  /\ \E n \in NestedIds(pre) :
       /\ predecessor_indices(pre, n) \cap LeafIds(pre) # {}
       /\ successor_indices(pre, n) \cap LeafIds(pre) # {}
  /\ NestedIds(prog) = {}
  /\ Cardinality(DOMAIN prog.nd) > Cardinality(DOMAIN pre.nd)

\* C10: the pass does not touch scheduling information: after a pass that
\* returned no non-sentinel time-table entry is set at any depth, and the
\* time-table update of the inlining branch is never run.
C10_NoSchedulingUpdate ==
  /\ LastOp = "consolidate" => adj = FALSE
  /\ Consolidated => ~AnyTimeSet(prog)

C10_Witness ==
  /\ Consolidated
  /\ InlinesAny(pre)
  /\ timed > 0
  /\ NestedIds(prog) = {}
  /\ adj = FALSE
  /\ ~AnyTimeSet(prog)

Flattened == LastOp \in {"flatten", "flatten_inplace"} /\ err = "none"

\* the leaf instructions of g at every depth
RECURSIVE AllLeaves(_)
AllLeaves(g) ==
  {g.nd[i] : i \in LeafIds(g)} \cup UNION {AllLeaves(g.nd[n].g) : n \in NestedIds(g)}

LeavesOf(w) == IF IsSequenceIR(w) THEN AllLeaves(w.g) ELSE {w}

\* the pairs of leaves of a sequenced g of which the second comes after the
\* first: they lie in two elements of one graph, the second element reached
\* from the first
RECURSIVE NestedPrecedence(_)
NestedPrecedence(g) ==
  UNION {LeavesOf(g.nd[e[1]]) \X LeavesOf(g.nd[e[2]]) :
           e \in {x \in Elems(g) \X Elems(g) :
                    x[1] # x[2] /\ x[2] \in ReachFrom(g, {x[1]})}}
  \cup UNION {NestedPrecedence(g.nd[n].g) : n \in NestedIds(g)}

ExpectedPrecedence(g) ==
  NestedPrecedence(g) \cup ({InNode} \X AllLeaves(g)) \cup (AllLeaves(g) \X {OutNode})
  \cup {<<InNode, OutNode>>}

\* C11: the graph flatten returns has no nested graph left: node 0 is Input,
\* node 1 is Output, every other node holds a leaf instruction, the leaves
\* are those the graph held at any depth, each once, and for a sequenced
\* graph the predecessors of a nested node precede its leaves, which precede
\* its successors (the copied sentinels are bridged and gone).
C11_FlattenInlinesAll ==
  Flattened =>
    /\ NestedIds(out) = {}
    /\ {0, 1} \subseteq DOMAIN out.nd
    /\ out.nd[0] = InNode /\ out.nd[1] = OutNode
    /\ \A i \in Elems(out) : out.nd[i].k = "inst"
    /\ {out.nd[i] : i \in Elems(out)} = AllLeaves(pre)
    /\ Cardinality(Elems(out)) = Cardinality(AllLeaves(pre))
    /\ Sequenced(pre) => Precedence(out) = ExpectedPrecedence(pre)

C11_Witness ==
  /\ Flattened
  /\ LastOp = "flatten"
  /\ Sequenced(pre)
  /\ \E n \in NestedIds(pre), p \in LeafIds(pre), c \in LeafIds(out) :
       /\ <<p, n>> \in pre.ed
       /\ out.nd[c] \in AllLeaves(pre.nd[n].g)
       /\ \E q \in LeafIds(out) : out.nd[q] = pre.nd[p] /\ <<q, c>> \in out.ed
  /\ NestedIds(out) = {}
  /\ Cardinality(DOMAIN out.nd) = Cardinality(AllLeaves(pre)) + 2

\* every element of g has an offset, at every depth
RECURSIVE FullyScheduled(_)
FullyScheduled(g) ==
  /\ \A i \in Elems(g) : TimeOf(g, i) # None
  /\ \A n \in NestedIds(g) : FullyScheduled(g.nd[n].g)

\* the leaves of a fully scheduled g, each with its own offset added to off
\* and to the offsets of the nested nodes that enclose it
RECURSIVE AbsoluteTimes(_, _)
AbsoluteTimes(g, off) ==
  {<<TimeOf(g, i) + off, g.nd[i]>> : i \in LeafIds(g)}
  \cup UNION {AbsoluteTimes(g.nd[n].g, off + TimeOf(g, n)) : n \in NestedIds(g)}

SetOf(l) == {l[j] : j \in 1..Len(l)}

\* C12: flattening a fully scheduled graph gives every leaf the sum of its
\* own offset and the offsets of the nested nodes that enclosed it, leaves no
\* entry of a replaced nested node, and the flat listing of the result holds
\* the same (time, instruction) pairs as the recursive listing of the graph.
C12_AbsoluteTimes ==
  (Flattened /\ FullyScheduled(pre)) =>
    /\ {<<TimeOf(out, i), out.nd[i]>> : i \in Elems(out)} = AbsoluteTimes(pre, 0)
    /\ (DOMAIN out.tt) \ {0, 1} = Elems(out)
    /\ LET flat == scheduled_elements(out, FALSE)
           deep == scheduled_elements(pre, TRUE)
       IN /\ flat.err = "none"
          /\ deep.err = "none"
          /\ SetOf(flat.l) = SetOf(deep.l)
          /\ Len(flat.l) = Len(deep.l)

C12_Witness ==
  /\ Flattened
  /\ FullyScheduled(pre)
  /\ \E n \in NestedIds(pre) :
       /\ TimeOf(pre, n) = 1
       /\ \E c \in LeafIds(pre.nd[n].g) :
            /\ TimeOf(pre.nd[n].g, c) = 1
            /\ <<2, pre.nd[n].g.nd[c]>> \in SetOf(scheduled_elements(out, FALSE).l)
  /\ \E p \in LeafIds(pre) : <<TimeOf(pre, p), pre.nd[p]>> \in SetOf(scheduled_elements(out, FALSE).l)

\* C13: flatten not in place works on a deep copy: whether it returns or
\* raises, the receiver is as it was at every level, nodes, edges and time
\* tables, and the block that is flattened shares no nested graph with it.
C13_ReceiverUnchanged ==
  LastOp = "flatten" => (prog = pre /\ FlattenBlock(pre).shared = {})

C13_Witness ==
  /\ LastOp = "flatten"
  /\ err = "none"
  /\ \E n \in NestedIds(pre) :
       /\ NestedIds(pre.nd[n].g) # {}
       /\ TimeOf(pre, n) # None
       /\ FlattenInPlace(pre.nd[n].g).g # pre.nd[n].g
  /\ prog = pre
  /\ out # pre
  /\ NestedIds(out) = {}

LegacyFlattened == LastOp = "legacy_flatten" /\ err = "none"

SameOutcome(a, b) == a.err = b.err /\ (a.err = "none" => a.v = b.v)

\* C14: flattening keeps the referenced targets: a flattened PulseIR has the
\* mixed frames and the logical elements of the PulseIR it was made of (both
\* calls return the same set or raise the same error), and a flattened fully
\* scheduled SequenceIR has the instruction targets of the original.
C14_TargetsKept ==
  /\ LegacyFlattened =>
       /\ SameOutcome(mixed_frames(out), mixed_frames(pre))
       /\ SameOutcome(logical_elements(out), logical_elements(pre))
  /\ (Flattened /\ FullyScheduled(pre)) => inst_targets(out) = inst_targets(pre)

C14_Witness ==
  /\ LegacyFlattened
  /\ \E j \in 1..Len(pre.elements) :
       /\ pre.elements[j].k = "ir"
       /\ mixed_frames(pre.elements[j]).v # {}
  /\ \E j \in 1..Len(pre.elements) : pre.elements[j].k = "acquire"
  /\ mixed_frames(pre).err = "none"
  /\ mixed_frames(out).v = {MixedFrame(Qubit(0), QubitFrame(0))}
  /\ logical_elements(out).err = "none"
  /\ logical_elements(out).v = {Qubit(0), Qubit(1)}

\* the duration the claim gives a graph: None when Output has no predecessor
\* or a predecessor has no offset or no duration, else the largest end
RECURSIVE ClaimedDuration(_)
ClaimedTerm(g, ind) ==
  IF IsSentinel(g.nd[ind]) \/ TimeOf(g, ind) = None THEN None
  ELSE IF ~IsSequenceIR(g.nd[ind]) THEN TimeOf(g, ind) + inst_duration(g.nd[ind])
  ELSE IF ClaimedDuration(g.nd[ind].g) = None THEN None
  ELSE TimeOf(g, ind) + ClaimedDuration(g.nd[ind].g)

ClaimedDuration(g) ==
  IF predecessor_indices(g, 1) = {} THEN None
  ELSE IF \E ind \in predecessor_indices(g, 1) : ClaimedTerm(g, ind) = None THEN None
  ELSE Max({ClaimedTerm(g, ind) : ind \in predecessor_indices(g, 1)})

\* C15: duration never fails: it returns None when Output has no
\* predecessor or when the offset or the duration of a direct predecessor of
\* Output is unresolved, else the largest offset plus duration among the
\* direct predecessors of Output.
C15_DurationNeverFails ==
  LastOp = "duration" => (err = "none" /\ out = ClaimedDuration(pre))

\* the elements of g by offset, those of one offset by node index
RECURSIVE ByTimeThenId(_, _)
ByTimeThenId(g, S) ==
  IF S = {} THEN <<>>
  ELSE LET m == CHOOSE x \in S :
                  \A y \in S : \/ TimeOf(g, x) < TimeOf(g, y)
                                \/ (TimeOf(g, x) = TimeOf(g, y) /\ x <= y)
       IN <<m>> \o ByTimeThenId(g, S \ {m})

PairsOf(g, ids) == [j \in 1..Len(ids) |-> <<TimeOf(g, ids[j]), g.nd[ids[j]]>>]

\* the place of the pair x in the listing l of distinct pairs
PlaceIn(l, x) == CHOOSE j \in 1..Len(l) : l[j] = x

\* C16: scheduled_elements returns one (time, payload) pair for each listed
\* element: when every time is set, by ascending time and, for equal times,
\* in the order of the listing (the node indices); when a time is unset, in
\* the order of the node indices, not sorted.
C16_SortedWhenTimed ==
  /\ LastOp = "scheduled_elements" =>
       /\ err = "none"
       /\ out = IF \A i \in Elems(pre) : TimeOf(pre, i) # None
                  THEN PairsOf(pre, ByTimeThenId(pre, Elems(pre)))
                ELSE PairsOf(pre, SortSet(Elems(pre)))
  /\ (LastOp = "recursive_scheduled_elements" /\ err = "none") =>
       /\ Len(out) = Cardinality(AllLeaves(pre))
       /\ SetOf(out) = AbsoluteTimes(pre, 0)
       /\ \A i \in 1..Len(out), j \in 1..Len(out) :
            i < j =>
              \/ out[i][1] < out[j][1]
              \/ /\ out[i][1] = out[j][1]
                 /\ PlaceIn(recursive_scheduled_elements(pre, 0).l, out[i])
                      < PlaceIn(recursive_scheduled_elements(pre, 0).l, out[j])

C16_Witness ==
  /\ LastOp = "scheduled_elements"
  /\ \E a \in Elems(pre), b \in Elems(pre), c \in Elems(pre) :
       /\ a < b /\ b < c
       /\ TimeOf(pre, a) = 1 /\ TimeOf(pre, b) = 0 /\ TimeOf(pre, c) = 0
       /\ out = PairsOf(pre, <<b, c, a>>)

\* a nested graph of g is not scheduled: the entry of its node or an entry
\* inside it, at any depth, is unset
UnscheduledNested(g) ==
  \E n \in NestedIds(g) : TimeOf(g, n) = None \/ ~FullyScheduled(g.nd[n].g)

\* C17: the recursive listing fails if and only if a nested graph is not
\* scheduled, and when it returns it returns leaves only.
C17_FailsIffNestedUnscheduled ==
  LastOp = "recursive_scheduled_elements" =>
    /\ err \in {"none", "PulseError"}
    /\ err = "PulseError" <=> UnscheduledNested(pre)
    /\ err = "none" => \A j \in 1..Len(out) : out[j][2].k = "inst"

\* C18: a comparison of two graphs returns, and returns true if and only if
\* the alignments are equal and the graphs are isomorphic under payload
\* equality, Input matched to Input and Output to Output, whatever the node
\* indices and the time tables are.
C18_EqualIffIsomorphic ==
  LastOp = "eq" =>
    /\ err = "none"
    /\ out <=> (prog.al = pre.al /\ is_isomorphic_node_match(prog, pre))

\* node 0 of g is Input, node 1 is Output, every other node holds an
\* instruction or a nested graph, and so it is in every nested graph
RECURSIVE WellFormed(_)
WellFormed(g) ==
  /\ {0, 1} \subseteq DOMAIN g.nd
  /\ g.nd[0] = InNode /\ g.nd[1] = OutNode
  /\ \A i \in Elems(g) : g.nd[i].k \in {"inst", "seq"}
  /\ \A n \in NestedIds(g) : WellFormed(g.nd[n].g)

RECURSIVE Acyclic(_)
Acyclic(g) ==
  /\ \A n \in DOMAIN g.nd : n \notin ReachFrom(g, successor_indices(g, n))
  /\ \A n \in NestedIds(g) : Acyclic(g.nd[n].g)

\* C20: the graph stays acyclic: removing a node with its edges retained and
\* substituting a node by the graph nested in it, as consolidation and
\* flatten do, never close a cycle, in the graph, in a nested graph or in the
\* graph flatten returns.
C20_Acyclic ==
  /\ Acyclic(prog)
  /\ Flattened => Acyclic(out)

C20_Witness ==
  /\ LastOp \in {"consolidate", "flatten_inplace"}
  /\ err = "none"
  /\ \E n \in NestedIds(pre) :
       /\ predecessor_indices(pre, n) \cap LeafIds(pre) # {}
       /\ successor_indices(pre, n) \cap LeafIds(pre) # {}
       /\ Cardinality(Elems(pre.nd[n].g)) >= 2
       /\ n \notin DOMAIN prog.nd
  /\ Cardinality(prog.ed) >= 5
  /\ Acyclic(prog)

IsLogicalElement(x) == x.type \in {"Qubit", "Coupler"}
IsIndexedFrame(x) == x.type \in {"QubitFrame", "MeasurementFrame"}
IsMixedFrame(x) == x.type \in {"MixedFrame", "CRMixedFrame"}

\* C21: two values built alike (same class, same index or name, same
\* components) compare equal and hash equal; two logical elements of
\* different classes, and a QubitFrame and a MeasurementFrame of one index,
\* are unequal; a CRMixedFrame equals, and hashes like, the MixedFrame of the
\* same logical element and frame.
C21_StructuralEquality ==
  LastOp = "addr_eq" =>
    /\ prog = pre => (err = "none" /\ out = TRUE /\ prog.hash = pre.hash)
    /\ (IsLogicalElement(prog) /\ IsLogicalElement(pre) /\ prog.type # pre.type)
         => (err = "none" /\ out = FALSE)
    /\ (IsIndexedFrame(prog) /\ IsIndexedFrame(pre) /\ prog.type # pre.type)
         => (err = "none" /\ out = FALSE)
    /\ (IsMixedFrame(prog) /\ IsMixedFrame(pre)
         /\ prog.logical_element = pre.logical_element /\ prog.frame = pre.frame)
         => (err = "none" /\ out = TRUE /\ prog.hash = pre.hash)

C21_Witness ==
  /\ LastOp = "addr_eq"
  /\ prog.type = "CRMixedFrame"
  /\ pre.type = "MixedFrame"
  /\ prog.logical_element = pre.logical_element
  /\ prog.frame = pre.frame
  /\ out = TRUE
  /\ prog.hash = pre.hash

\* C22: a GenericFrame built without phase reports phase 0; two GenericFrames
\* of one name and frequency that report the same phase compare equal and
\* hash equal, the one built without phase and the one built with phase 0
\* included; two of one name that differ in frequency or in the phase they
\* report are unequal.
C22_PhaseDefaultsToZero ==
  /\ (LastOp = "phase" /\ prog.phase = None) => out = 0
  /\ (LastOp = "addr_eq" /\ prog.type = "GenericFrame" /\ pre.type = "GenericFrame"
      /\ prog.name = pre.name)
       => IF /\ prog.frequency = pre.frequency
             /\ GenericFrame_phase(prog) = GenericFrame_phase(pre)
            THEN out = TRUE /\ prog.hash = pre.hash
          ELSE out = FALSE

\* the t0 given is a non-negative integer
ValidStart(a) == a.t0 # None /\ a.t0 >= 0

\* the required fields of a generic instruction as C23 lists them
RequiredAsClaimed(a) ==
  /\ a.instruction_type \in
       {"Play", "Delay", "SetFrequency", "ShiftFrequency", "SetPhase", "ShiftPhase"}
  /\ IF a.instruction_type = "Delay"
       THEN a.operand.k = "int" /\ a.operand.v >= 0 /\ a.logical_element # NoTarget
     ELSE IF a.instruction_type = "Play"
       THEN a.operand.k = "waveform" /\ a.logical_element # NoTarget /\ a.frame # NoTarget
     ELSE a.frame # NoTarget

\* the same with the operand of a frequency or phase kind: a float or an integer
RequiredWithOperand(a) ==
  /\ RequiredAsClaimed(a)
  /\ a.instruction_type \notin {"Play", "Delay"} => a.operand.k \in {"int", "float"}

ExpectedDuration(a) ==
  IF a.instruction_type \in {"Play", "Delay"} THEN a.operand.v ELSE 0

\* what a construction does when it succeeds iff ok holds of its arguments
ConstructsIff(ok) ==
  /\ err = "none" <=> ok
  /\ ~ok => (err = "PulseError" /\ out = NoTarget)
  /\ ok => /\ out # NoTarget
           /\ out.instruction_type = prog.instruction_type
           /\ out.duration = ExpectedDuration(prog)

\* C23 as stated: with a valid t0 the construction succeeds iff the kind is
\* one of the six and the listed fields are valid, a frame alone for the
\* frequency and phase kinds.
C23_ValidatedAsListed ==
  (LastOp = "generic" /\ ValidStart(prog)) => ConstructsIff(RequiredAsClaimed(prog))

\* C23 amended: with a valid t0 the construction succeeds iff the kind is one
\* of the six and its fields are valid, where a frequency or phase kind needs
\* a frame and a float or integer operand; otherwise it fails with PulseError
\* and nothing is built; the duration is the waveform's for Play, the operand
\* for Delay, 0 for the other kinds.
C23_Validated ==
  (LastOp = "generic" /\ ValidStart(prog)) => ConstructsIff(RequiredWithOperand(prog))

C23_Witness ==
  /\ LastOp = "generic"
  /\ ValidStart(prog)
  /\ prog.instruction_type = "Play"
  /\ err = "none"
  /\ out.duration = 2
  /\ out.t0 = prog.t0

\* C24: t0 is optional: an instruction whose other arguments are valid is
\* built iff its duration is a non-negative integer and its t0 is left out or
\* a non-negative integer, and one built without t0 has t0 unset.
C24_StartOptional ==
  /\ (LastOp = "generic" /\ RequiredWithOperand(prog))
       => /\ err = "none" <=> (prog.t0 = None \/ prog.t0 >= 0)
          /\ err = "none" => out.t0 = prog.t0
  /\ LastOp = "acquire"
       => /\ err = "none" <=> (prog.duration >= 0 /\ (prog.t0 = None \/ prog.t0 >= 0))
          /\ err = "none" => out.t0 = prog.t0

\* the leaf instructions of a PulseIR at every depth
RECURSIVE LegacyLeaves(_)
LegacyLeaves(ir) ==
  UNION {IF ir.elements[j].k = "ir" THEN LegacyLeaves(ir.elements[j]) ELSE {ir.elements[j]} :
           j \in 1..Len(ir.elements)}

Generics(ir) == {x \in LegacyLeaves(ir) : x.k = "generic"}

\* a generic instruction at some depth lacks its logical element or its frame
Unbound(ir) == \E x \in Generics(ir) : x.logical_element = NoTarget \/ x.frame = NoTarget

\* what each of the three listings collects of a PulseIR all bound
Referenced(ir, op) ==
  IF op = "mixed_frames"
    THEN {MixedFrame(x.logical_element, x.frame) : x \in Generics(ir)}
  ELSE IF op = "frames" THEN {x.frame : x \in Generics(ir)}
  ELSE {x.logical_element : x \in Generics(ir)}
       \cup {x.qubit : x \in {y \in LegacyLeaves(ir) : y.k = "acquire"}}

\* C25: each of mixed_frames, logical_elements and frames collects the values
\* of the leaf instructions at every depth, and each fails with PulseError
\* when a generic instruction at some depth lacks its logical element or its
\* frame.
C25_ListingsFailOnUnbound ==
  LastOp \in {"mixed_frames", "logical_elements", "frames"} =>
    IF Unbound(prog) THEN err = "PulseError"
    ELSE err = "none" /\ out = Referenced(prog, LastOp)

\* the path of node indices from g to the graph whose precondition fails: the
\* first, in the order of the loop, that has an offset among its own elements
RECURSIVE FailingPath(_)
FailingPath(g) ==
  IF \E x \in Elems(g) : TimeOf(g, x) # None THEN <<>>
  ELSE LET n == CHOOSE x \in NestedIds(g) :
                  /\ AnyTimeSet(g.nd[x].g)
                  /\ \A y \in NestedIds(g) : AnyTimeSet(g.nd[y].g) => x <= y
       IN <<n>> \o FailingPath(g.nd[n].g)

\* after is before with the pass stopped in the graph at path: that graph is
\* as it was; on the way to it, in every graph, the nested graphs without
\* elements before the node on the path are gone from their nodes, and the
\* elements after that node are as they were
RECURSIVE StoppedAt(_, _, _)
StoppedAt(before, after, path) ==
  IF path = <<>> THEN after = before
  ELSE /\ Head(path) \in DOMAIN after.nd
       /\ IsSequenceIR(after.nd[Head(path)])
       /\ after.tt = before.tt
       /\ \A m \in NestedIds(before) :
            (m < Head(path) /\ Elems(before.nd[m].g) = {})
              => (m \notin DOMAIN after.nd \/ after.nd[m] # before.nd[m])
       /\ \A m \in Elems(before) :
            m > Head(path) => (m \in DOMAIN after.nd /\ after.nd[m] = before.nd[m])
       /\ StoppedAt(before.nd[Head(path)].g, after.nd[Head(path)].g, Tail(path))

\* C26: the precondition of a (sub)graph is checked before that (sub)graph is
\* changed: when it fails for a graph, nested or not, the pass raises and the
\* nodes, edges and time table of that graph are as they were, the rewrites
\* of its earlier siblings and of its parents stay, and the later siblings
\* are not reached.
C26_AtomicPerSubgraph ==
  (LastOp = "consolidate" /\ AnyTimeSet(pre)) =>
    /\ err = "PulseCompilerError"
    /\ StoppedAt(pre, prog, FailingPath(pre))

C26_Witness ==
  /\ LastOp = "consolidate"
  /\ err = "PulseCompilerError"
  /\ FailingPath(pre) # <<>>
  /\ prog # pre
  /\ \E m \in NestedIds(pre) : m < Head(FailingPath(pre)) /\ m \notin NestedIds(prog)
  /\ StoppedAt(pre, prog, FailingPath(pre))

\* C27: flattening keeps the duration: for a fully scheduled, sequenced
\* graph, nested graphs without elements included, the duration of the
\* flattened graph is the duration of the graph: the two calls end alike,
\* with the same value returned.
C27_FlattenKeepsDuration ==
  (LastOp = "flatten_inplace" /\ err = "none" /\ FullyScheduled(pre) /\ Sequenced(pre)) =>
    DurationOutcomes(prog) = DurationOutcomes(pre)
====
